---------------------------- MODULE Spec2Model ----------------------------
(***************************************************************************)
(* State-machine model of the grid engine of GridTool.js.                  *)
(*                                                                         *)
(* The tool object, its configuration and the per-image tool state are     *)
(* held in one record, `tool`.  Every public call (placement, the          *)
(* configuration setters, rotateGrid, setOffset, removeGrid, the copy of   *)
(* an image's lines to other images, a repaint) is one action; the         *)
(* private builders it calls are operators from tool records to tool       *)
(* records, composed in the order of the source.                           *)
(* The specification SpecEvents adds the pointer callbacks of a drag       *)
(* session, the change of the displayed image and the changes of the       *)
(* tool's mode to the calls.                                               *)
(*                                                                         *)
(* Conventions                                                             *)
(*  - JavaScript indices are kept 0-based; At(seq, i) reads element i.     *)
(*  - Null (-1) stands for null / undefined where the source yields a      *)
(*    number or nothing; Thrown (-2) for a lookup that raised a TypeError. *)
(*  - A TypeError raised inside a call sets the field err; everything the  *)
(*    call had mutated before the error stays mutated, as in JavaScript.   *)
(*  - Coordinates are exact binary fractions: integers in units of         *)
(*    1/Scale pixel.  A call whose arithmetic would leave that set, or the *)
(*    coordinate box, sets the field cut and is not taken (model bound).   *)
(*    In these units the cosine and sine of a quarter turn are 0 and 1.    *)
(*  - The rounding of JavaScript numbers is below these units.  It is      *)
(*    modelled in the specification SpecDoubles, where rotateGrid works    *)
(*    on IEEE 754 doubles (variable `doubles`).                            *)
(***************************************************************************)
EXTENDS Integers, Sequences, FiniteSets, TLC

VARIABLES
  tool,          \* the GridTool instance with its configuration and tool state
  last,          \* the latest call or event: operation, input, how it ended
  steps,         \* number of calls and events so far
  thrown,        \* some call so far ended with a TypeError
  beforeEnable,  \* the lines before the latest enabling of refinement
  beforeResize,  \* the main lines before a pair of resize calls, and the pair's progress
  doubles        \* the coordinates of a grid as doubles, through rotation round trips

vars == <<tool, last, steps, thrown, beforeEnable, beforeResize, doubles>>

-----------------------------------------------------------------------------
(* Bounds of the model *)

\* Number of API calls explored per behaviour.
MaxSteps == 4
\* Largest line count passed to the noOfPrimaryLines / noOfSecondaryLines setters.
MaxCount == 4
\* Coordinates carry ScaleBits binary fraction digits.
ScaleBits == 4
\* Points further than MaxCoord pixels from the origin are outside the model.
MaxCoord == 64
\* Lines per grid and points per line kept by the model.
MaxLines == 17
\* Number of calls that make the grid, and of rotateGrid calls that follow, per
\* behaviour of the rotation round trip on doubles.
MaxShapes == 2
\* Longest list of image ids passed to hasGridForImageIds.
MaxIds == 2
MaxTurns == 3
\* configuration.noOfPrimaryLines.default and noOfSecondaryLines.default of the
\* modelled tool instance.  defaultToolConfiguration() ships 10 for both; the
\* model instantiates the tool with a smaller configuration so that refined
\* grids (4*(n-1)+1 lines) stay small.  No operation reads the literal 10.
DefaultNoOfPrimaryLines == 3
DefaultNoOfSecondaryLines == 3

-----------------------------------------------------------------------------
(* Program constants *)

\* configuration.spacing.default
DefaultSpacing == 5
\* The subdivision factor, written as the literal 4 throughout the source.
Subdivision == 4

Null == -1
Thrown == -2

RECURSIVE Pow2(_)
Pow2(n) == IF n = 0 THEN 1 ELSE 2 * Pow2(n - 1)

Scale == Pow2(ScaleBits)

\* imgA is the image the element displays
ImageIds == {"imgA", "imgB", "imgC"}

-----------------------------------------------------------------------------
(* JavaScript helpers *)

InRange(seq, i) == i >= 0 /\ i < Len(seq)
At(seq, i) == seq[i + 1]
\* `null` and `undefined` count as 0 in arithmetic and comparisons.
Num(v) == IF v = Null THEN 0 ELSE v
Min(a, b) == IF a < b THEN a ELSE b
Max(a, b) == IF a > b THEN a ELSE b
Abs(a) == IF a < 0 THEN -a ELSE a
\* Array.prototype.splice(i, 0, e): insertion, clamped to the array's length.
Splice(seq, i, e) ==
  LET k == Min(Max(i, 0), Len(seq))
  IN SubSeq(seq, 1, k) \o <<e>> \o SubSeq(seq, k + 1, Len(seq))
\* Array.prototype.pop(), n times (a pop of an empty array does nothing).
PopN(seq, n) == SubSeq(seq, 1, Max(Len(seq) - n, 0))
BoolStr(b) == IF b THEN "true" ELSE "false"

RECURSIVE OddPart(_)
OddPart(n) == IF n > 0 /\ n % 2 = 0 THEN OddPart(n \div 2) ELSE n

\* (diff / existing) * new is exact in binary floating point when the quotient
\* is a binary fraction, and representable when the product is a whole number
\* of coordinate units.
RatioExact(diff, existing, new) ==
  /\ existing > 0
  /\ diff % OddPart(existing) = 0
  /\ (diff * new) % existing = 0
Ratio(diff, existing, new) == (diff * new) \div existing

-----------------------------------------------------------------------------
(* Tool state accessors *)

\* getToolState(this.element, this.name).data of the displayed image.
Data(s) == s.data[s.image]
SetData(s, d) == [s EXCEPT !.data[s.image] = d]
\* The guard `!toolState || !toolState.data || !toolState.data.length`, negated.
HasGrid(s) == Len(Data(s)) > 0
Points(s, i) == At(Data(s), i).points

\* A TypeError raised by the runtime, and an Error thrown by a setter's type check
Throw(s) == [s EXCEPT !.err = TRUE]
Raise(s) == [s EXCEPT !.err = TRUE, !.raised = TRUE]
\* Sequencing: a TypeError ends the call, the rest is not executed.
Then(s, F(_)) == IF s.err THEN s ELSE F(s)

\* createNewMeasurement(): `handles` tells that the line has its `handles`
\* object, which holds the points; uuid 0 is a line not stored yet.
createNewMeasurement == [active |-> FALSE, handles |-> TRUE, points |-> <<>>, uuid |-> 0]

\* The uuids of the lines stored for any image
StoredUuids(s) ==
  UNION {{s.data[img][i].uuid : i \in 1..Len(s.data[img])} : img \in ImageIds}

\* uuidv4(): an identifier no stored line carries, here the smallest such number
uuidv4(used) ==
  CHOOSE n \in 1..(Cardinality(used) + 1) : n \notin used /\ \A m \in 1..(n - 1) : m \in used

\* addToolState(element, name, measurement, idx): the measurement gets its uuid
\* and is inserted at idx, or appended when idx is null; the image's tool state
\* is created on the first call.
addToolState(s, measurement, idx) ==
  LET d == Data(s)
      stored == [measurement EXCEPT !.uuid = uuidv4(StoredUuids(s))]
  IN [s EXCEPT !.data[s.image] =
                  IF idx = Null THEN Append(d, stored) ELSE Splice(d, idx, stored),
               !.exists[s.image] = TRUE]

addNewMeasurementToState(s, idx) == addToolState(s, createNewMeasurement, idx)

-----------------------------------------------------------------------------
(* Getters of the public configuration API *)

\* get spacing
GetSpacing(s) ==
  IF ~HasGrid(s) THEN Null
  ELSE IF s.spacing[s.image] = Null THEN DefaultSpacing ELSE s.spacing[s.image]

\* get showRefinementPoints: the global flag (null without a grid)
GetShowRefinementPoints(s) == HasGrid(s) /\ s.showGlobal

\* get showRefinementPoints, as the value returned
ShowRefinementPointsValue(s) == IF ~HasGrid(s) THEN "null" ELSE BoolStr(s.showGlobal)

\* get totalNoOfPrimaryLines
GetTotalNoOfPrimaryLines(s) == IF ~HasGrid(s) THEN Null ELSE Len(Data(s))

\* get totalNoOfSecondaryLines
GetTotalNoOfSecondaryLines(s) == IF ~HasGrid(s) THEN Null ELSE Len(Points(s, 0))

\* A line whose points[0] is undefined makes `points[0].isCommonPoint` throw.
IsMainLine(line) == line.points[1].c
SomeLineEmpty(s) == \E i \in 1..Len(Data(s)) : Len(Data(s)[i].points) = 0

\* get noOfPrimaryLines: lines whose first point is a common point
GetNoOfPrimaryLines(s) ==
  IF ~HasGrid(s) THEN Null
  ELSE IF SomeLineEmpty(s) \/ (\E i \in 1..Len(Data(s)) : ~Data(s)[i].handles) THEN Thrown
  ELSE Cardinality({i \in 1..Len(Data(s)) : IsMainLine(Data(s)[i])})

CommonPositions(points) == {j \in 1..Len(points) : points[j].c}

\* get noOfSecondaryLines: common points of line 0
GetNoOfSecondaryLines(s) ==
  IF ~HasGrid(s) THEN Null
  ELSE IF ~Data(s)[1].handles THEN Thrown
  ELSE Cardinality(CommonPositions(Points(s, 0)))

\* getGridMiddlePointCoords(): null without a grid; the point is kept doubled
getGridMiddlePointCoords(s) ==
  IF ~HasGrid(s) THEN [kind |-> "null"]
  ELSE IF Len(Points(s, 0)) = 0 \/ Len(Points(s, Len(Data(s)) - 1)) = 0
       THEN [kind |-> "TypeError"]
  ELSE LET upperLeft == At(Points(s, 0), 0)
           lastPoints == Points(s, Len(Data(s)) - 1)
           bottomRight == At(lastPoints, Len(lastPoints) - 1)
       IN [kind |-> "point", twiceX |-> upperLeft.x + bottomRight.x,
           twiceY |-> upperLeft.y + bottomRight.y]

\* One line of the compact export: the points and the uuid, no `handles` object
CompactLine(primaryLine) ==
  [active |-> FALSE, handles |-> FALSE, points |-> primaryLine.points,
   uuid |-> primaryLine.uuid]

\* getStateForImageId(imageId, compact): the stored lines of the image, [] if
\* none; the compact form reads `primaryLine.handles.points` of every line and
\* throws a TypeError on a line without `handles`.
getStateForImageId(s, imageId, compact) ==
  LET data == s.data[imageId]
  IN IF ~compact THEN [kind |-> "lines", lines |-> data]
     ELSE IF \E i \in 1..Len(data) : ~data[i].handles THEN [kind |-> "TypeError", lines |-> <<>>]
     ELSE [kind |-> "lines", lines |-> [i \in 1..Len(data) |-> CompactLine(data[i])]]

\* hasGridForImageIds(imageIds) counting each image with a grid once
hasGridForDistinctImageIds(s, imageIds) ==
  LET withGrid ==
        {imageIds[k] : k \in {k \in 1..Len(imageIds) :
                                Len(getStateForImageId(s, imageIds[k], FALSE).lines) > 0}}
  IN Cardinality(withGrid) = Len(imageIds)

\* hasGridForImageIds(imageIds), imageIds a sequence
hasGridForImageIds(s, imageIds) ==
  LET noOfGrids ==
        Cardinality({k \in 1..Len(imageIds) : Len(getStateForImageId(s, imageIds[k], FALSE).lines) > 0})
  IN noOfGrids = Len(imageIds)

-----------------------------------------------------------------------------
(* Topology index *)

\* getPreviousMainPrimaryLine(currentPrimaryLineIdx).idx
RECURSIVE ScanPrevious(_, _)
ScanPrevious(d, i) ==
  IF i < 0 THEN Null
  ELSE IF ~InRange(d, i) THEN Thrown
  ELSE IF Len(At(d, i).points) = 0 THEN Thrown
  ELSE IF IsMainLine(At(d, i)) THEN i
  ELSE ScanPrevious(d, i - 1)

getPreviousMainPrimaryLine(s, currentPrimaryLineIdx) ==
  IF ~HasGrid(s) THEN Null ELSE ScanPrevious(Data(s), Num(currentPrimaryLineIdx) - 1)

\* getNextMainPrimaryLine(currentPrimaryLineIdx).idx
RECURSIVE ScanNext(_, _)
ScanNext(d, i) ==
  IF ~InRange(d, i) THEN Null
  ELSE IF Len(At(d, i).points) = 0 THEN Thrown
  ELSE IF IsMainLine(At(d, i)) THEN i
  ELSE ScanNext(d, i + 1)

\* getNextMainPrimaryLine(currentPrimaryLineIdx) without the test of
\* points[0].isCommonPoint: the line after the given one is returned
getNextMainPrimaryLineAdjacent(s, currentPrimaryLineIdx) ==
  IF ~HasGrid(s) \/ ~InRange(Data(s), Num(currentPrimaryLineIdx) + 1) THEN Null
  ELSE Num(currentPrimaryLineIdx) + 1

getNextMainPrimaryLine(s, currentPrimaryLineIdx) ==
  IF ~HasGrid(s) THEN Null ELSE ScanNext(Data(s), Num(currentPrimaryLineIdx) + 1)

\* getIthCommonPointOnPrimaryLine(ith, primaryLineIdx): the position (0-based)
\* of the first point at which the running count of common points, started at
\* -1, equals ith; Null when there is none or the line does not exist.
RECURSIVE ScanCommon(_, _, _, _)
ScanCommon(points, ith, pos, count) ==
  IF pos >= Len(points) THEN Null
  ELSE LET c == IF At(points, pos).c THEN count + 1 ELSE count
       IN IF c = ith THEN pos ELSE ScanCommon(points, ith, pos + 1, c)

getIthCommonPointOnPrimaryLine(s, ith, primaryLineIdx) ==
  IF ~HasGrid(s) \/ primaryLineIdx = Null \/ ~InRange(Data(s), primaryLineIdx) THEN Null
  ELSE ScanCommon(Points(s, primaryLineIdx), ith, 0, -1)

\* getAllMainPrimaryLines(from): the keys of the returned map in insertion
\* order, <<Thrown>> when the scan raised, Null without a grid.
RECURSIVE ChainNext(_, _, _)
ChainNext(s, i, acc) ==
  LET n == getNextMainPrimaryLine(s, i)
  IN IF n = Thrown THEN <<Thrown>>
     ELSE IF n = Null THEN acc
     ELSE ChainNext(s, n, IF \E k \in 1..Len(acc) : acc[k] = n THEN acc ELSE Append(acc, n))

getAllMainPrimaryLines(s, fromPrimaryLineIdx) ==
  IF ~HasGrid(s) THEN Null
  ELSE ChainNext(s, Num(fromPrimaryLineIdx),
                 IF fromPrimaryLineIdx = Null THEN <<>> ELSE <<fromPrimaryLineIdx>>)

-----------------------------------------------------------------------------
(* Grid builder *)

Handle(x, y, c) == [x |-> x, y |-> y, c |-> c]
NewPoint(x, y, li, c) == [x |-> x, y |-> y, primaryLineIdx |-> li, c |-> c]

\* addPoint(point): a FreehandHandleData is pushed onto line point.primaryLineIdx;
\* `primaryLine.handles` throws when that line does not exist.
addPoint(s, point) ==
  IF ~InRange(Data(s), point.primaryLineIdx) THEN Throw(s)
  ELSE [s EXCEPT !.data[s.image][point.primaryLineIdx + 1].points =
                    Append(@, Handle(point.x, point.y, point.c))]

\* points.forEach(point => this.addPoint(point))
RECURSIVE addPoints(_, _, _)
addPoints(s, points, k) ==
  IF s.err \/ k > Len(points) THEN s
  ELSE addPoints(addPoint(s, points[k]), points, k + 1)

\* generateMainPrimaryLine(primaryLineIndex, position)
generateMainPrimaryLine(s, primaryLineIndex, position) ==
  LET s1 == addNewMeasurementToState(s, primaryLineIndex)
      d == Data(s1)
      sp == GetSpacing(s1) * Scale
  IN IF Len(d) < 2 THEN
       IF position.nil THEN Throw(s1)
       ELSE addPoints(s1,
              [j \in 1..DefaultNoOfSecondaryLines |->
                 NewPoint(position.x + s1.currentTool * sp,
                          position.y + sp * (j - 1), 0, TRUE)], 1)
     ELSE
       LET prevIdx == getPreviousMainPrimaryLine(s1, primaryLineIndex)
           prevPrevIdx == IF prevIdx = Thrown THEN Thrown
                          ELSE getPreviousMainPrimaryLine(s1, prevIdx)
           noOfPoints == IF position.nil THEN GetNoOfSecondaryLines(s1)
                         ELSE DefaultNoOfSecondaryLines
           A(j) == getIthCommonPointOnPrimaryLine(s1, j, prevIdx)
           B(j) == getIthCommonPointOnPrimaryLine(s1, j, prevPrevIdx)
           Bad(j) == A(j) = Null \/ (prevPrevIdx # Null /\ B(j) = Null)
           Pt(j) ==
             LET a == At(Points(s1, prevIdx), A(j))
                 xDiff == IF prevPrevIdx = Null THEN sp
                          ELSE a.x - At(Points(s1, prevPrevIdx), B(j)).x
                 yDiff == IF prevPrevIdx = Null THEN 0
                          ELSE a.y - At(Points(s1, prevPrevIdx), B(j)).y
             IN NewPoint(a.x + xDiff, a.y + yDiff, Len(d) - 1, TRUE)
       IN IF prevIdx = Thrown \/ prevPrevIdx = Thrown THEN Throw(s1)
          ELSE IF \E j \in 0..(noOfPoints - 1) : Bad(j) THEN Throw(s1)
          ELSE addPoints(s1, [j \in 1..noOfPoints |-> Pt(j - 1)], 1)

\* The loops of _generateSubsidiaryPrimaryLine: one entry per visited
\* (subsidiaryPrimaryLineIdx, pointIdx), in source order.
\*   "skip"  : the point is not a common point, or there is no next main line
\*   "throw" : a lookup raised
\*   "point" : the interpolated point is pushed
SubsidiaryVisit(s, from, k, j) ==
  LET d == Data(s)
  IN IF ~InRange(d, from) \/ ~InRange(At(d, from).points, j) THEN [kind |-> "throw"]
     ELSE LET a == At(At(d, from).points, j)
              next == getNextMainPrimaryLine(s, from)
          IN IF ~a.c THEN [kind |-> "skip"]
             ELSE IF next = Thrown THEN [kind |-> "throw"]
             ELSE IF next = Null THEN [kind |-> "skip"]
             ELSE IF ~InRange(Points(s, next), j) THEN [kind |-> "throw"]
             ELSE LET b == At(Points(s, next), j)
                      xDiff == b.x - a.x
                      yDiff == b.y - a.y
                  IN [kind |-> "point",
                      exact |-> xDiff % Subdivision = 0 /\ yDiff % Subdivision = 0,
                      point |-> NewPoint(a.x + (xDiff \div Subdivision) * (k + 1),
                                         a.y + (yDiff \div Subdivision) * (k + 1),
                                         from + k + 1, FALSE)]

RECURSIVE CollectPoints(_, _)
CollectPoints(visits, k) ==
  IF k > Len(visits) THEN <<>>
  ELSE IF visits[k].kind = "point" THEN <<visits[k].point>> \o CollectPoints(visits, k + 1)
  ELSE CollectPoints(visits, k + 1)

\* _generateSubsidiaryPrimaryLine(fromMainPrimaryLineIdx, fromSecondaryLineIdx,
\*                                createNewSubsidiaryLines)
generateSubsidiaryPrimaryLine(s, from, fromSecondaryLineIdx, createNew) ==
  IF ~HasGrid(s) THEN s
  ELSE
    LET first == IF fromSecondaryLineIdx = Null \/ fromSecondaryLineIdx = 0 THEN 0
                 ELSE fromSecondaryLineIdx
        total == GetTotalNoOfSecondaryLines(s)
        width == Max(total - first, 0)
        visits == [n \in 1..(3 * width) |->
                     SubsidiaryVisit(s, from, (n - 1) \div width, first + ((n - 1) % width))]
        s1 == IF createNew
              THEN addNewMeasurementToState(
                     addNewMeasurementToState(
                       addNewMeasurementToState(s, from + 1), from + 2), from + 3)
              ELSE s
        s2 == IF \A n \in 1..Len(visits) : visits[n].kind # "point" \/ visits[n].exact
              THEN s1 ELSE [s1 EXCEPT !.cut = TRUE]
    IN IF \E n \in 1..Len(visits) : visits[n].kind = "throw" THEN Throw(s)
       ELSE addPoints(s2, CollectPoints(visits, 1), 1)

\* generateSubsidiaryPrimaryLines(from, to, createNewSubsidiaryLines, fromSecondaryLineIdx)
RECURSIVE SubsidiaryCalls(_, _, _, _, _)
SubsidiaryCalls(s, beginning, calls, createNew, fromSecondaryLineIdx) ==
  IF s.err \/ calls <= 0 THEN s
  ELSE SubsidiaryCalls(
         generateSubsidiaryPrimaryLine(s, beginning, fromSecondaryLineIdx, createNew),
         beginning + Subdivision, calls - 1, createNew, fromSecondaryLineIdx)

generateSubsidiaryPrimaryLines(s, from, to, createNew, fromSecondaryLineIdx) ==
  SubsidiaryCalls(s, from, Num(to) - Num(from), createNew, fromSecondaryLineIdx)

\* The refinement points generateRefinementPointsOnCurrentPrimaryLines collects
\* for one line (pointsToAdd), as a sequence of [key, point] in ascending key
\* order, which is the order Object.entries yields integer keys in.
RECURSIVE PointsToAdd(_, _, _, _)
PointsToAdd(s, primaryLineIdx, secondaryLineIdx, limit) ==
  IF secondaryLineIdx >= limit THEN <<>>
  ELSE
    LET p == getIthCommonPointOnPrimaryLine(s, secondaryLineIdx, primaryLineIdx)
        q == getIthCommonPointOnPrimaryLine(s, secondaryLineIdx + 1, primaryLineIdx)
    IN IF q = Null THEN <<>>
       ELSE
         LET point == At(Points(s, primaryLineIdx), p)
             nextPoint == At(Points(s, primaryLineIdx), q)
             dx == nextPoint.x - point.x
             dy == nextPoint.y - point.y
             xDiff == dx \div Subdivision
             yDiff == dy \div Subdivision
             E(k) == [key |-> secondaryLineIdx * Subdivision + k,
                      exact |-> dx % Subdivision = 0 /\ dy % Subdivision = 0,
                      point |-> Handle(point.x + xDiff * k, point.y + yDiff * k, FALSE)]
         IN <<E(1), E(2), E(3)>> \o
            PointsToAdd(s, primaryLineIdx, secondaryLineIdx + 1, limit)

RECURSIVE SpliceAll(_, _, _)
SpliceAll(points, entries, k) ==
  IF k > Len(entries) THEN points
  ELSE SpliceAll(Splice(points, entries[k].key, entries[k].point), entries, k + 1)

RefineLine(s, primaryLineIdx, fromSecondaryLineIdx) ==
  LET entries == PointsToAdd(s, primaryLineIdx, fromSecondaryLineIdx,
                             GetNoOfSecondaryLines(s))
  IN IF Len(entries) = 0 THEN s
     ELSE [s EXCEPT !.data[s.image][primaryLineIdx + 1].points = SpliceAll(@, entries, 1),
                    !.cut = @ \/ \E k \in 1..Len(entries) : ~entries[k].exact]

RECURSIVE RefineLines(_, _, _, _)
RefineLines(s, keys, k, fromSecondaryLineIdx) ==
  IF k > Len(keys) THEN s
  ELSE RefineLines(RefineLine(s, keys[k], fromSecondaryLineIdx), keys, k + 1,
                   fromSecondaryLineIdx)

\* generateRefinementPointsOnCurrentPrimaryLines(options).  An option the
\* caller left out is passed as Null; hasFromSecondary tells whether
\* options.fromSecondaryLineIdx is defined (the default options define it).
generateRefinementPointsOnCurrentPrimaryLines(s, fromPrimaryLineIdx, fromSecondaryLineIdx, hasFromSecondary) ==
  IF ~HasGrid(s) THEN s
  ELSE
    LET from == IF fromPrimaryLineIdx = Null \/ fromPrimaryLineIdx = 0 THEN Null
                ELSE fromPrimaryLineIdx
        mains == getAllMainPrimaryLines(s, from)
        count == GetNoOfPrimaryLines(s)
        keys == IF hasFromSecondary
                THEN [i \in 1..Num(count) |-> (i - 1) * Subdivision]
                ELSE mains
        first == IF fromSecondaryLineIdx = Null THEN 0 ELSE fromSecondaryLineIdx
    IN IF mains = <<Thrown>> THEN Throw(s)
       ELSE IF hasFromSecondary /\ count = Thrown THEN Throw(s)
       ELSE RefineLines(s, keys, 1, first)

\* removeAllRefinementPoints(): every line is filtered down to its common
\* points; then the lines at indices length-1 down to 1 are visited and the
\* empty ones spliced out.
RECURSIVE DropEmptyLines(_, _)
DropEmptyLines(d, t) ==
  IF t <= 0 THEN d
  ELSE DropEmptyLines(
         IF Len(At(d, t).points) = 0
         THEN SubSeq(d, 1, t) \o SubSeq(d, t + 2, Len(d)) ELSE d,
         t - 1)

\* removeAllRefinementPoints() without the loop that splices out emptied lines
removeAllRefinementPointsKeepingLines(s) ==
  IF ~HasGrid(s) THEN s
  ELSE SetData(s, [i \in 1..Len(Data(s)) |->
                     [Data(s)[i] EXCEPT !.points = SelectSeq(@, LAMBDA p : p.c)]])

\* The emptied lines spliced out only while they form the last run of lines
RECURSIVE DropLastRun(_)
DropLastRun(d) ==
  IF Len(d) > 1 /\ Len(d[Len(d)].points) = 0 THEN DropLastRun(SubSeq(d, 1, Len(d) - 1))
  ELSE d

\* removeAllRefinementPoints() that stops at the first line that kept points
removeAllRefinementPointsLastRun(s) ==
  IF ~HasGrid(s) THEN s
  ELSE
    LET filtered == [i \in 1..Len(Data(s)) |->
                       [Data(s)[i] EXCEPT !.points = SelectSeq(@, LAMBDA p : p.c)]]
    IN SetData(s, DropLastRun(filtered))

\* removeAllRefinementPoints()
removeAllRefinementPoints(s) ==
  IF ~HasGrid(s) THEN s
  ELSE
    LET filtered == [i \in 1..Len(Data(s)) |->
                       [Data(s)[i] EXCEPT !.points = SelectSeq(@, LAMBDA p : p.c)]]
    IN SetData(s, DropEmptyLines(filtered, Len(filtered) - 1))

\* removeLastPrimaryLine()
removeLastPrimaryLine(s) ==
  SetData(s, PopN(Data(s), IF GetShowRefinementPoints(s) THEN Subdivision ELSE 1))

\* generateSecondaryLine(): one new common point per visited line
RECURSIVE SecondaryLineLoop(_, _)
SecondaryLineLoop(s, primaryLineIdx) ==
  IF s.err \/ primaryLineIdx >= Num(GetTotalNoOfPrimaryLines(s)) THEN s
  ELSE IF GetShowRefinementPoints(s) /\ primaryLineIdx % Subdivision # 0
       THEN SecondaryLineLoop(s, primaryLineIdx + 1)
  ELSE
    LET points == Points(s, primaryLineIdx)
        noOfPoints == Len(points)
        pp == IF GetShowRefinementPoints(s) THEN noOfPoints - 5 ELSE noOfPoints - 2
    IN IF noOfPoints = 0 THEN Throw(s)
       ELSE
         LET prevPoint == At(points, noOfPoints - 1)
             xDiff == IF InRange(points, pp) THEN prevPoint.x - At(points, pp).x ELSE 0
             yDiff == IF InRange(points, pp) THEN prevPoint.y - At(points, pp).y
                      ELSE GetSpacing(s) * Scale
         IN SecondaryLineLoop(
              addPoint(s, NewPoint(prevPoint.x + xDiff, prevPoint.y + yDiff,
                                   primaryLineIdx, TRUE)),
              primaryLineIdx + 1)

generateSecondaryLine(s) == SecondaryLineLoop(s, 0)

\* removeLastSecondaryLine(): with refinement the first pass pops one point off
\* every line and three more passes pop one point off the lines 0, 4, 8, ...
removeLastSecondaryLine(s) ==
  IF ~HasGrid(s) THEN s
  ELSE
    LET Pops(idx) == IF GetShowRefinementPoints(s)
                     THEN (IF idx % Subdivision = 0 THEN 4 ELSE 1)
                     ELSE 1
    IN SetData(s, [i \in 1..Len(Data(s)) |->
                     [Data(s)[i] EXCEPT !.points = PopN(@, Pops(i - 1))]])

-----------------------------------------------------------------------------
(* Edit session *)

\* fireCompletedEvent() / fireRemovedEvent(): events fired by the running call
fireCompletedEvent(s) == [s EXCEPT !.completed = @ + 1]
fireRemovedEvent(s) == [s EXCEPT !.removed = @ + 1]

\* activateDraw(): _activeDrawingToolReference is the last line of the displayed
\* image, kept as its index and, in activeDrawingToolImage, the image it is
\* stored for.
activateDraw(s) ==
  LET s1 == [s EXCEPT !.drawing = TRUE, !.isMultiPartToolActive = TRUE]
  IN IF HasGrid(s1)
     THEN [s1 EXCEPT !.currentTool = Len(Data(s1)) - 1,
                     !.activeDrawingToolReference = Len(Data(s1)) - 1,
                     !.activeDrawingToolImage = s1.image]
     ELSE s1

\* _deactivateDraw()
deactivateDraw(s) ==
  [s EXCEPT !.drawing = FALSE, !.isMultiPartToolActive = FALSE,
            !.activeDrawingToolReference = Null, !.activeDrawingToolImage = "none"]

\* _endDrawing(): `toolState.data[config.currentTool]` throws when the image
\* has no tool state object at all.
endDrawing(s) ==
  IF s.currentTool # -1 /\ ~s.exists[s.image] THEN Throw(s)
  ELSE
    LET s1 == IF s.currentTool # -1 /\ InRange(Data(s), s.currentTool)
              THEN [s EXCEPT !.data[s.image][s.currentTool + 1].active = FALSE]
              ELSE s
        s2 == [s1 EXCEPT !.modifying = FALSE, !.currentHandle = 0, !.currentTool = 0]
        s3 == IF s2.drawing THEN deactivateDraw(s2) ELSE s2
    IN fireCompletedEvent(s3)

\* completeDrawing()
completeDrawing(s) == IF ~s.drawing THEN s ELSE endDrawing(s)

-----------------------------------------------------------------------------
(* Grid mutator *)

\* getGridMiddlePointCoords(), doubled (the halving is done by the caller):
\* first point of the first line plus last point of the last line.
MiddleDefined(s) ==
  /\ HasGrid(s)
  /\ Len(Points(s, 0)) > 0
  /\ Len(Points(s, Len(Data(s)) - 1)) > 0

MiddleTwice(s) ==
  LET upperLeft == At(Points(s, 0), 0)
      lastPoints == Points(s, Len(Data(s)) - 1)
      bottomRight == At(lastPoints, Len(lastPoints) - 1)
  IN [x |-> upperLeft.x + bottomRight.x, y |-> upperLeft.y + bottomRight.y]

MapPoints(s, F(_)) ==
  SetData(s, [i \in 1..Len(Data(s)) |->
                [Data(s)[i] EXCEPT !.points = [j \in 1..Len(@) |-> F(@[j])]]])

\* Math.cos / Math.sin of a whole number of quarter turns
CosDeg(angle) == CASE angle % 360 = 0 -> 1 [] angle % 360 = 180 -> -1 [] OTHER -> 0
SinDeg(angle) == CASE angle % 360 = 90 -> 1 [] angle % 360 = 270 -> -1 [] OTHER -> 0

\* rotateGrid(angle), angle a multiple of 90 degrees
rotateGrid(s, angle) ==
  IF ~HasGrid(s) THEN s
  ELSE IF ~MiddleDefined(s) THEN Throw(s)
  ELSE
    LET m2 == MiddleTwice(s)
        exact == m2.x % 2 = 0 /\ m2.y % 2 = 0
        mx == m2.x \div 2
        my == m2.y \div 2
        c == CosDeg(angle)
        sn == SinDeg(angle)
        Rot(p) == [p EXCEPT !.x = (p.x - mx) * c - (p.y - my) * sn + mx,
                            !.y = (p.x - mx) * sn + (p.y - my) * c + my]
        s1 == activateDraw(s)
        s2 == MapPoints([s1 EXCEPT !.cut = @ \/ ~exact], Rot)
    IN completeDrawing(s2)

\* setOffset(newLocation, usingMouseInput), newLocation a pair of numbers
setOffset(s, newLocation, usingMouseInput) ==
  IF newLocation.nan \/ newLocation.x < 0 \/ newLocation.y < 0 THEN s
  ELSE
    LET currentTool == IF usingMouseInput THEN s.currentTool ELSE 0
        currentHandle == IF usingMouseInput THEN s.currentHandle ELSE 0
    IN IF ~s.exists[s.image] \/ ~InRange(Data(s), currentTool) THEN Throw(s)
       ELSE IF ~InRange(Points(s, currentTool), currentHandle) THEN Throw(s)
       ELSE
         LET h == At(Points(s, currentTool), currentHandle)
             xChange == newLocation.x - h.x
             yChange == newLocation.y - h.y
             Move(p) == [p EXCEPT !.x = @ + xChange, !.y = @ + yChange]
         IN fireCompletedEvent(MapPoints(s, Move))

\* removeGrid() without the reset of configuration.spacing
removeGridKeepingSpacing(s) ==
  fireRemovedEvent([s EXCEPT !.data[s.image] = <<>>, !.show[s.image] = "undefined"])

\* removeGrid()
removeGrid(s) ==
  fireRemovedEvent(
    [s EXCEPT !.data[s.image] = <<>>,
              !.show[s.image] = "undefined",
              !.spacing = [i \in DOMAIN s.spacing |-> Null]])

\* coordDiffBetweenFirstAndSecondMainPrimaryLine: defined unless a lookup throws
MainLineDiffDefined(s) ==
  /\ Len(Points(s, 0)) > 0
  /\ getNextMainPrimaryLine(s, 0) \notin {Null, Thrown}

MainLineDiff(s) ==
  LET first == At(Points(s, 0), 0)
      second == At(Points(s, getNextMainPrimaryLine(s, 0)), 0)
  IN [x |-> second.x - first.x, y |-> second.y - first.y]

\* coordDiffBetweenFirstAndSecondPointOnPrimaryLine(primaryLineIdx, _): the
\* position of the "second point".  `primaryLinePoints % 4 !== 0` converts the
\* array to a number: 0 for an empty array, NaN otherwise, so with refinement
\* shown the second point is points[1] of every non-empty line.
SecondPointPosition(s, primaryLineIdx) ==
  IF GetShowRefinementPoints(s) /\ Len(Points(s, primaryLineIdx)) # 0
  THEN (IF Len(Points(s, primaryLineIdx)) > 1 THEN 1 ELSE Null)
  ELSE getIthCommonPointOnPrimaryLine(s, 1, primaryLineIdx)

LineDiffDefined(s, primaryLineIdx) ==
  /\ SecondPointPosition(s, primaryLineIdx) # Null
  /\ Len(Points(s, primaryLineIdx)) > 0

LineDiff(s, primaryLineIdx) ==
  LET points == Points(s, primaryLineIdx)
      second == At(points, SecondPointPosition(s, primaryLineIdx))
  IN [x |-> second.x - At(points, 0).x, y |-> second.y - At(points, 0).y]

\* First loop of onSpacingChange ("between primary lines").  Secondary line j
\* visits the lines 0, o, 2o, ... (o = 4 when refinement is shown and j % 4 # 0,
\* else 1) at position j, or j / 4 on a line with index % 4 # 0 when refinement
\* is shown; the visited point becomes points[j] of line 0 plus (ddx, ddy)
\* times the line index.  Writing to a missing point throws.
SpacingVisited(s, j, i) ==
  ~(GetShowRefinementPoints(s) /\ j % Subdivision # 0) \/ i % Subdivision = 0

SpacingTarget(s, j, i) ==
  IF GetShowRefinementPoints(s) /\ i % Subdivision # 0
  THEN (IF j % Subdivision = 0 THEN j \div Subdivision ELSE Null)
  ELSE j

SpacingOrder(s, j, i) == j * Len(Data(s)) + i

SpacingFirstThrow(s) ==
  LET bad == {SpacingOrder(s, j, i) :
                <<j, i>> \in {v \in (0..(Len(Points(s, 0)) - 1)) \X (0..(Len(Data(s)) - 1)) :
                     /\ SpacingVisited(s, v[1], v[2])
                     /\ ~InRange(Points(s, v[2]), SpacingTarget(s, v[1], v[2]))}}
  IN IF bad = {} THEN Null ELSE CHOOSE b \in bad : \A c \in bad : b <= c

AdjustPrimarySpacing(s, ddx, ddy) ==
  LET stop == SpacingFirstThrow(s)
      line0 == Points(s, 0)
      \* the secondary line that writes position pos of line i, if any
      Source(i, pos) ==
        IF GetShowRefinementPoints(s) /\ i % Subdivision # 0 THEN pos * Subdivision ELSE pos
      Written(i, pos) ==
        /\ InRange(line0, Source(i, pos))
        /\ SpacingVisited(s, Source(i, pos), i)
        /\ (stop = Null \/ SpacingOrder(s, Source(i, pos), i) < stop)
      NewPt(i, pos, p) ==
        IF Written(i, pos)
        THEN [p EXCEPT !.x = At(line0, Source(i, pos)).x + ddx * i,
                       !.y = At(line0, Source(i, pos)).y + ddy * i]
        ELSE p
      s1 == SetData(s, [i \in 1..Len(Data(s)) |->
                          [Data(s)[i] EXCEPT !.points =
                             [pos \in 1..Len(@) |-> NewPt(i - 1, pos - 1, @[pos])]]])
  IN IF stop = Null THEN s1 ELSE Throw(s1)

\* Second loop of onSpacingChange ("between secondary lines"), line by line
RECURSIVE AdjustSecondarySpacing(_, _, _, _)
AdjustSecondarySpacing(s, primaryLineIdx, existingSpacing, newSpacing) ==
  IF s.err \/ primaryLineIdx >= Len(Data(s)) THEN s
  ELSE IF ~LineDiffDefined(s, primaryLineIdx) THEN Throw(s)
  ELSE
    LET diff == LineDiff(s, primaryLineIdx)
        exact == /\ RatioExact(diff.x, existingSpacing, newSpacing)
                 /\ RatioExact(diff.y, existingSpacing, newSpacing)
        dx == Ratio(diff.x, existingSpacing, newSpacing)
        dy == Ratio(diff.y, existingSpacing, newSpacing)
        first == At(Points(s, primaryLineIdx), 0)
        s1 == [s EXCEPT !.data[s.image][primaryLineIdx + 1].points =
                 [k \in 1..Len(@) |-> [@[k] EXCEPT !.x = first.x + dx * (k - 1),
                                                   !.y = first.y + dy * (k - 1)]],
                        !.cut = @ \/ ~exact]
    IN AdjustSecondarySpacing(s1, primaryLineIdx + 1, existingSpacing, newSpacing)

\* onSpacingChange(newSpacing, imageId)
onSpacingChange(s, newSpacing) ==
  IF ~HasGrid(s) THEN s
  ELSE
    LET s1 == activateDraw(s)
        spacing == GetSpacing(s1)
        existingSpacing == IF GetShowRefinementPoints(s1) THEN spacing * Subdivision
                           ELSE spacing
    IN IF ~MainLineDiffDefined(s1) THEN Throw(s1)
       ELSE
         LET diff == MainLineDiff(s1)
             exact == /\ RatioExact(diff.x, existingSpacing, newSpacing)
                      /\ RatioExact(diff.y, existingSpacing, newSpacing)
             ddx == Ratio(diff.x, existingSpacing, newSpacing)
             ddy == Ratio(diff.y, existingSpacing, newSpacing)
             s2 == AdjustPrimarySpacing([s1 EXCEPT !.cut = @ \/ ~exact], ddx, ddy)
             s3 == Then(s2, LAMBDA t : AdjustSecondarySpacing(t, 0, spacing, newSpacing))
             s4 == Then(s3, LAMBDA t : [t EXCEPT !.spacing[t.image] = newSpacing])
         IN Then(s4, completeDrawing)

-----------------------------------------------------------------------------
(* Public configuration API: setters.  An argument is a record               *)
(* [type |-> "number", v |-> n], [type |-> "boolean", v |-> b],             *)
(* [type |-> "NaN"] (typeof NaN is 'number') or [type |-> "string"].        *)

IsNumberType(input) == input.type \in {"number", "NaN"}

\* set showRefinementPoints, after its type check
setShowRefinementPointsTo(s, value) ==
  IF s.show[s.image] = BoolStr(value) THEN s
  ELSE
    LET s1 == IF value
              THEN Then(generateSubsidiaryPrimaryLines(
                          s, 0, Num(GetTotalNoOfPrimaryLines(s)) - 1, TRUE, Null),
                        LAMBDA t : generateRefinementPointsOnCurrentPrimaryLines(t, 0, 0, TRUE))
              ELSE removeAllRefinementPoints(s)
    IN Then(s1, LAMBDA t : fireCompletedEvent(
                             [t EXCEPT !.showGlobal = value,
                                       !.show[t.image] = BoolStr(value)]))

\* set showRefinementPoints
setShowRefinementPoints(s, input) ==
  IF input.type # "boolean" THEN Raise(s) ELSE setShowRefinementPointsTo(s, input.v)

\* set moveOneHandleOnly
setMoveOneHandleOnly(s, input) ==
  IF input.type # "boolean" THEN Raise(s)
  ELSE fireCompletedEvent([s EXCEPT !.moveOneHandleOnly = input.v])

\* One round of the growing loop of set noOfPrimaryLines
GrowPrimary(s) ==
  LET s1 == generateMainPrimaryLine(s, GetTotalNoOfPrimaryLines(s), [nil |-> TRUE])
  IN IF s1.err \/ ~GetShowRefinementPoints(s1) THEN s1
     ELSE
       LET fromPrimaryLineIdx == getPreviousMainPrimaryLine(s1, GetTotalNoOfPrimaryLines(s1))
       IN IF fromPrimaryLineIdx = Thrown THEN Throw(s1)
          ELSE
            LET s2 == generateRefinementPointsOnCurrentPrimaryLines(
                        s1, fromPrimaryLineIdx, Null, FALSE)
            IN Then(s2, LAMBDA t : generateSubsidiaryPrimaryLines(
                                     t, GetTotalNoOfPrimaryLines(t) - 2,
                                     GetTotalNoOfPrimaryLines(t) - 1, TRUE, Null))

RECURSIVE GrowPrimaryLoop(_, _)
GrowPrimaryLoop(s, times) ==
  IF s.err \/ times <= 0 THEN s ELSE GrowPrimaryLoop(GrowPrimary(s), times - 1)

RECURSIVE ShrinkPrimaryLoop(_, _)
ShrinkPrimaryLoop(s, times) ==
  IF times <= 0 THEN s ELSE ShrinkPrimaryLoop(removeLastPrimaryLine(s), times - 1)

\* set noOfPrimaryLines
setNoOfPrimaryLines(s, input) ==
  IF ~IsNumberType(input) THEN Raise(s)
  ELSE IF input.type = "NaN" \/ input.v < 2 THEN s
  ELSE
    LET existing == GetNoOfPrimaryLines(s)
    IN IF existing = Thrown THEN Throw(s)
       ELSE IF input.v = existing THEN s
       ELSE
         LET s1 == activateDraw(s)
             s2 == IF input.v > Num(existing)
                   THEN GrowPrimaryLoop(s1, input.v - Num(existing))
                   ELSE ShrinkPrimaryLoop(s1, existing - input.v)
         IN Then(s2, completeDrawing)

\* One round of the growing loop of set noOfSecondaryLines; existing is the
\* loop counter after its increment.
GrowSecondary(s, existing) ==
  LET s1 == generateSecondaryLine(s)
  IN IF s1.err \/ ~GetShowRefinementPoints(s1) THEN s1
     ELSE
       LET s2 == generateRefinementPointsOnCurrentPrimaryLines(s1, Null, existing - 2, TRUE)
       IN IF s2.err THEN s2
          ELSE IF GetNoOfPrimaryLines(s2) = Thrown THEN Throw(s2)
          ELSE generateSubsidiaryPrimaryLines(
                 s2, 0, GetNoOfPrimaryLines(s2), FALSE,
                 Num(GetTotalNoOfSecondaryLines(s2)) - 3)

RECURSIVE GrowSecondaryLoop(_, _, _)
GrowSecondaryLoop(s, existing, target) ==
  IF s.err \/ existing >= target THEN s
  ELSE GrowSecondaryLoop(GrowSecondary(s, existing + 1), existing + 1, target)

RECURSIVE ShrinkSecondaryLoop(_, _)
ShrinkSecondaryLoop(s, times) ==
  IF times <= 0 THEN s ELSE ShrinkSecondaryLoop(removeLastSecondaryLine(s), times - 1)

\* set noOfSecondaryLines
setNoOfSecondaryLines(s, input) ==
  IF ~IsNumberType(input) THEN Raise(s)
  ELSE IF input.type = "NaN" \/ input.v < 2 THEN s
  ELSE
    LET existing == GetNoOfSecondaryLines(s)
    IN IF input.v = existing THEN s
       ELSE
         LET s1 == activateDraw(s)
             s2 == IF input.v > Num(existing)
                   THEN GrowSecondaryLoop(s1, Num(existing), input.v)
                   ELSE ShrinkSecondaryLoop(s1, existing - input.v)
         IN Then(s2, completeDrawing)

\* set spacing without the `value < 1` test
setSpacingUnchecked(s, input) ==
  IF ~IsNumberType(input) THEN Raise(s)
  ELSE IF input.type = "NaN" THEN s
  ELSE onSpacingChange(s, input.v)

\* set spacing
setSpacing(s, input) ==
  IF ~IsNumberType(input) THEN Raise(s)
  ELSE IF input.type = "NaN" \/ input.v < 1 THEN s
  ELSE onSpacingChange(s, input.v)

\* get angle, for the orientations the model represents: the tangent is
\* (bottomRight.y - bottomLeft.y) / (bottomRight.x - bottomLeft.x) once the
\* halvings cancel.  "throws" when a corner point is missing, "other" when the
\* tangent is none of 0, 1, -1, +-Infinity (including NaN).
AngleKind(s) ==
  IF ~HasGrid(s) THEN "null"
  ELSE IF ~MiddleDefined(s) THEN "throws"
  ELSE
    LET line0 == Points(s, 0)
        bottomLeft == At(line0, GetTotalNoOfSecondaryLines(s) - 1)
        lastPoints == Points(s, Len(Data(s)) - 1)
        bottomRight == At(lastPoints, Len(lastPoints) - 1)
        opposite == bottomRight.y - bottomLeft.y
        adjacent == bottomRight.x - bottomLeft.x
    IN IF opposite = 0 /\ adjacent = 0 THEN "other"
       ELSE IF opposite = 0 THEN "0"
       ELSE IF adjacent = 0 THEN (IF opposite > 0 THEN "90" ELSE "-90")
       ELSE IF opposite = adjacent THEN "45"
       ELSE IF opposite = -adjacent THEN "-45"
       ELSE "other"

GetAngle(s) ==
  CASE AngleKind(s) = "0" -> 0
    [] AngleKind(s) = "90" -> 90
    [] AngleKind(s) = "-90" -> -90
    [] AngleKind(s) = "45" -> 45
    [] AngleKind(s) = "-45" -> -45
    [] OTHER -> 0

\* set angle
setAngle(s, input) ==
  IF ~IsNumberType(input) THEN Raise(s)
  ELSE IF input.type = "NaN" \/ input.v < 0 \/ input.v > 90 THEN s
  ELSE IF AngleKind(s) = "throws" THEN Throw(s)
  ELSE IF ~HasGrid(s) THEN rotateGrid(s, input.v)
  ELSE IF AngleKind(s) = "other" \/ (input.v - GetAngle(s)) % 90 # 0
       THEN [s EXCEPT !.cut = TRUE]
  ELSE rotateGrid(s, input.v - GetAngle(s))

-----------------------------------------------------------------------------
(* Placement *)

RECURSIVE PlaceLines(_, _, _)
PlaceLines(s, lineIdx, position) ==
  IF s.err \/ lineIdx >= DefaultNoOfPrimaryLines THEN s
  ELSE PlaceLines(generateMainPrimaryLine(s, lineIdx, position), lineIdx + 1, position)

\* addNewMeasurement(evt), evt.detail.currentPoints.image = position
addNewMeasurement(s, position) ==
  IF HasGrid(s) THEN s
  ELSE
    LET s1 == PlaceLines(activateDraw(s), 0, position)
        s2 == Then(s1, completeDrawing)
    IN Then(s2, LAMBDA t : setShowRefinementPointsTo(t, t.showGlobal))

-----------------------------------------------------------------------------
(* Copying a grid to other images *)

\* _setShowRefinementPointsForImageId(imageId, value): nothing is recorded
\* while the displayed image has no lines
setShowRefinementPointsForImageId(s, imageId, value) ==
  IF ~HasGrid(s) THEN s
  ELSE [s EXCEPT !.showGlobal = value, !.show[imageId] = BoolStr(value)]

\* A cloned line that keeps the uuid of the line it was cloned from
KeepUuid(used, primaryLine) == primaryLine

\* primaryLine.uuid = uuidv4(): the first identifier no line in `used` carries
RegenerateUuid(used, primaryLine) == [primaryLine EXCEPT !.uuid = uuidv4(used)]

\* structuredClone(primaryLines) with a new uuid for every line
RECURSIVE CopyLines(_, _, _)
CopyLines(used, primaryLines, copied) ==
  IF Len(copied) = Len(primaryLines) THEN copied
  ELSE
    LET primaryLine == primaryLines[Len(copied) + 1]
        given == {copied[i].uuid : i \in 1..Len(copied)}
    IN CopyLines(used, primaryLines,
                 Append(copied, RegenerateUuid(used \cup given, primaryLine)))

\* restoreImageIdToolState(imageId, {[name]: {data}}): the image's stored lines
\* are replaced by the given ones
restoreImageIdToolState(s, imageId, data) ==
  [s EXCEPT !.data[imageId] = data, !.exists[imageId] = TRUE]

\* The loop of setStateForImageIds over imageIds, from position k (1-based)
RECURSIVE StoreForImageIds(_, _, _, _, _)
StoreForImageIds(s, primaryLines, imageIds, hasRefinementPoints, k) ==
  IF k > Len(imageIds) THEN s
  ELSE
    LET copiedState == CopyLines(StoredUuids(s), primaryLines, <<>>)
        s1 == restoreImageIdToolState(s, imageIds[k], copiedState)
        s2 == setShowRefinementPointsForImageId(s1, imageIds[k], hasRefinementPoints)
    IN StoreForImageIds(s2, primaryLines, imageIds, hasRefinementPoints, k + 1)

\* setStateForImageIds(primaryLines, imageIds, hasRefinementPoints)
setStateForImageIds(s, primaryLines, imageIds, hasRefinementPoints) ==
  fireCompletedEvent(StoreForImageIds(s, primaryLines, imageIds, hasRefinementPoints, 1))

\* setStateForImageIds(getStateForImageId(imageId, compact), imageIds, flag):
\* when the export throws, the call is not made
copyStateToImageIds(s, imageId, compact, imageIds, hasRefinementPoints) ==
  LET exported == getStateForImageId(s, imageId, compact)
  IN IF exported.kind = "TypeError" THEN Throw(s)
     ELSE setStateForImageIds(s, exported.lines, imageIds, hasRefinementPoints)

\* renderToolData(evt), as far as it changes the tool: the displayed image's
\* setting, when defined and different from the global one, is set to the
\* global one through the setter
renderToolData(s) ==
  IF ~s.exists[s.image] THEN s
  ELSE IF s.show[s.image] # "undefined" /\ s.show[s.image] # BoolStr(s.showGlobal)
  THEN setShowRefinementPointsTo(s, s.showGlobal)
  ELSE s

-----------------------------------------------------------------------------
(* Pointer events and mode changes *)

\* _activateModify() / _deactivateModify(): the mouse-up and mouse-drag
\* listeners are attached exactly while state.isToolLocked is set
activateModify(s) == [s EXCEPT !.isToolLocked = TRUE]
deactivateModify(s) == [s EXCEPT !.isToolLocked = FALSE]

\* handleSelectedCallback(evt, toolData, handle), handle being the point p of
\* the line toolIndex: the search reads `handles.points` of every line in turn
handleSelectedCallback(s, toolIndex, p) ==
  IF ~s.exists[s.image] THEN Throw(s)
  ELSE
    LET bare == {i \in 0..(Len(Data(s)) - 1) : ~At(Data(s), i).handles}
        found == /\ InRange(Data(s), toolIndex)
                 /\ InRange(Points(s, toolIndex), p)
                 /\ \A i \in bare : toolIndex < i
        s1 == IF found THEN [s EXCEPT !.currentHandle = p, !.currentTool = toolIndex]
              ELSE s
    IN IF bare # {} THEN Throw(s1)
       ELSE activateModify([s1 EXCEPT !.modifying = TRUE])

\* _editMouseUpCallback()
editMouseUpCallback(s) == endDrawing(deactivateModify(s))

\* _editMouseDragCallback(evt) storing a new handle {x, y} at the grabbed
\* position instead of moving the handle that is there
editMouseDragCallbackNewHandle(s, pressed, mouseLocation) ==
  IF ~pressed THEN s
  ELSE IF ~s.exists[s.image] \/ ~InRange(Data(s), s.currentTool) THEN Throw(s)
  ELSE IF ~At(Data(s), s.currentTool).handles THEN Throw(s)
  ELSE
    LET s1 == [s EXCEPT !.data[s.image][s.currentTool + 1].active = TRUE]
    IN IF s1.moveOneHandleOnly
       THEN IF ~InRange(Points(s1, s1.currentTool), s1.currentHandle) THEN Throw(s1)
            ELSE [s1 EXCEPT !.data[s.image][s.currentTool + 1].points[s.currentHandle + 1] =
                              [@ EXCEPT !.x = mouseLocation.x, !.y = mouseLocation.y,
                                        !.c = FALSE]]
       ELSE setOffset(s1, mouseLocation, TRUE)

\* _editMouseDragCallback(evt): pressed tells that evt.detail.buttons is in the
\* tool's mouseButtonMask, mouseLocation is the pointer in image coordinates
\* (a point of the image, which clipToBox leaves as it is)
editMouseDragCallback(s, pressed, mouseLocation) ==
  IF ~pressed THEN s
  ELSE IF ~s.exists[s.image] \/ ~InRange(Data(s), s.currentTool) THEN Throw(s)
  ELSE IF ~At(Data(s), s.currentTool).handles THEN Throw(s)
  ELSE
    LET s1 == [s EXCEPT !.data[s.image][s.currentTool + 1].active = TRUE]
    IN IF s1.moveOneHandleOnly
       THEN IF ~InRange(Points(s1, s1.currentTool), s1.currentHandle) THEN Throw(s1)
            ELSE [s1 EXCEPT !.data[s.image][s.currentTool + 1].points[s.currentHandle + 1] =
                              [@ EXCEPT !.x = mouseLocation.x, !.y = mouseLocation.y]]
       ELSE setOffset(s1, mouseLocation, TRUE)

\* _closeToolIfDrawing()
closeToolIfDrawing(s) == IF s.drawing THEN endDrawing(s) ELSE s

passiveCallback(s) == closeToolIfDrawing(s)
enabledCallback(s) == closeToolIfDrawing(s)
disabledCallback(s) == closeToolIfDrawing(s)

\* newImageCallback(), run once the element displays the image imageId
newImageCallback(s, imageId) ==
  LET s0 == [s EXCEPT !.image = imageId]
  IN IF ~(s0.drawing /\ s0.activeDrawingToolReference # Null) THEN s0
     ELSE
       LET img == s0.activeDrawingToolImage
           idx == s0.activeDrawingToolReference
           s1 == IF InRange(s0.data[img], idx)
                 THEN [s0 EXCEPT !.data[img][idx + 1].active = FALSE]
                 ELSE s0
       IN deactivateDraw([s1 EXCEPT !.currentHandle = 0, !.currentTool = -1])

-----------------------------------------------------------------------------
(* The state machine *)

Number(n) == [type |-> "number", v |-> n]
Boolean(b) == [type |-> "boolean", v |-> b]
NotANumber == [type |-> "NaN"]
SomeString == [type |-> "string"]

CountInputs == {Number(n) : n \in 1..MaxCount} \cup {NotANumber, SomeString}
SpacingInputs ==
  {Number(0), Number(DefaultSpacing), Number(2 * DefaultSpacing), NotANumber, SomeString}
AngleInputs == {Number(-1), Number(0), Number(90), Number(91), NotANumber, SomeString}
BooleanInputs == {Boolean(TRUE), Boolean(FALSE), SomeString}
\* image coordinates of a click / a new offset, in pixels; nan marks isNaN(x)
Anchor == [nil |-> FALSE, x |-> 10 * Scale, y |-> 10 * Scale]
OffsetInputs ==
  {[nan |-> FALSE, x |-> 8 * Scale, y |-> 8 * Scale],
   [nan |-> FALSE, x |-> -1 * Scale, y |-> 8 * Scale],
   [nan |-> FALSE, x |-> 8 * Scale, y |-> -1 * Scale],
   [nan |-> TRUE, x |-> 0, y |-> 0]}
RotationInputs == {90}
\* the images a grid is copied to, none of them the displayed one
TargetInputs == {<<"imgC", "imgB">>}
SourceInputs == {"imgA", "imgB"}
CloneInputs ==
  {[type |-> "clone", imageId |-> imageId, compact |-> compact, imageIds |-> imageIds,
    hasRefinementPoints |-> flag] :
     imageId \in SourceInputs, compact \in BOOLEAN, imageIds \in TargetInputs, flag \in BOOLEAN}

\* new GridTool(): constructor and defaultToolConfiguration()
InitialTool ==
  [image |-> "imgA",
   data |-> [i \in ImageIds |-> <<>>],
   exists |-> [i \in ImageIds |-> FALSE],
   spacing |-> [i \in ImageIds |-> Null],
   show |-> [i \in ImageIds |-> "undefined"],
   showGlobal |-> FALSE,
   moveOneHandleOnly |-> FALSE,
   currentHandle |-> 0,
   currentTool |-> -1,
   drawing |-> FALSE,
   modifying |-> FALSE,
   isMultiPartToolActive |-> FALSE,
   isToolLocked |-> FALSE,
   activeDrawingToolReference |-> Null,
   activeDrawingToolImage |-> "none",
   err |-> FALSE, raised |-> FALSE, cut |-> FALSE, completed |-> 0, removed |-> 0]

\* The tool as a call finds it: no error pending, no event fired yet
Fresh(s) == [s EXCEPT !.err = FALSE, !.raised = FALSE, !.cut = FALSE,
                      !.completed = 0, !.removed = 0]

\* What an atomic call would have to leave alone when it fails: the lines, the
\* configuration, and the session flags _drawing and state.isMultiPartToolActive
Kept(s) ==
  [data |-> s.data, spacing |-> s.spacing, show |-> s.show, showGlobal |-> s.showGlobal,
   currentHandle |-> s.currentHandle, currentTool |-> s.currentTool,
   moveOneHandleOnly |-> s.moveOneHandleOnly, drawing |-> s.drawing,
   isMultiPartToolActive |-> s.isMultiPartToolActive]

WithinBounds(s) ==
  \A img \in DOMAIN s.data :
    /\ Len(s.data[img]) <= MaxLines
    /\ \A i \in 1..Len(s.data[img]) :
         /\ Len(s.data[img][i].points) <= MaxLines
         /\ \A j \in 1..Len(s.data[img][i].points) :
              /\ Abs(s.data[img][i].points[j].x) <= MaxCoord * Scale
              /\ Abs(s.data[img][i].points[j].y) <= MaxCoord * Scale

\* How a call ended: with an Error of a type check, with a TypeError, without
\* any effect (no change, no event), or applied.
Outcome(s, r) ==
  IF r.raised THEN "Error"
  ELSE IF r.err THEN "TypeError"
  ELSE IF r = s THEN "ignored"
  ELSE "applied"

NoSnapshot == [phase |-> "none", lines |-> <<>>]

\* The lines before the latest enabling of refinement, kept while the only
\* call since is the disabling call.
Snapshot(s, op, input, r) ==
  IF op = "showRefinementPoints" /\ input = Boolean(TRUE) /\ HasGrid(s)
     /\ s.show[s.image] # "true" /\ ~r.err
  THEN [phase |-> "enabled", lines |-> Data(s)]
  ELSE IF op = "showRefinementPoints" /\ input = Boolean(FALSE)
          /\ beforeEnable.phase = "enabled" /\ ~r.err
  THEN [beforeEnable EXCEPT !.phase = "disabled"]
  ELSE NoSnapshot

\* The common points of the main lines, line by line
MainLinesOf(d) ==
  LET mains == SelectSeq(d, LAMBDA line : \E j \in 1..Len(line.points) : line.points[j].c)
  IN [i \in 1..Len(mains) |-> SelectSeq(mains[i].points, LAMBDA p : p.c)]

NoResize == [phase |-> "none", n |-> 0, mains |-> <<>>]

\* `noOfPrimaryLines = m` on a grid of n main lines, then `noOfPrimaryLines = n`
ResizePair(s, op, input) ==
  IF op = "noOfPrimaryLines" /\ input.type = "number" /\ input.v >= 2
  THEN IF beforeResize.phase = "first" /\ input.v = beforeResize.n
       THEN [beforeResize EXCEPT !.phase = "second"]
       ELSE IF Len(MainLinesOf(Data(s))) >= 2
       THEN [phase |-> "first", n |-> Len(MainLinesOf(Data(s))), mains |-> MainLinesOf(Data(s))]
       ELSE NoResize
  ELSE NoResize

\* What a call did to the grid, recorded with the call: the shape of an
\* unrefined grid before it, its first point, and whether the call moved
\* every point by one and the same vector.
IsUnrefined(d) ==
  /\ Len(d) > 0
  /\ Len(d[1].points) > 0
  /\ \A i \in 1..Len(d) :
       /\ Len(d[i].points) = Len(d[1].points)
       /\ \A j \in 1..Len(d[i].points) : d[i].points[j].c

\* a refined grid of at least two main lines: the lines at 0, 4, 8, ... have
\* their common points at 0, 4, 8, ... and the other lines have none
IsRefined(d) ==
  /\ Len(d) > Subdivision
  /\ (Len(d) - 1) % Subdivision = 0
  /\ \A i \in 1..Len(d) :
       /\ Len(d[i].points) > 1
       /\ IF (i - 1) % Subdivision = 0
          THEN /\ (Len(d[i].points) - 1) % Subdivision = 0
               /\ \A j \in 1..Len(d[i].points) :
                    d[i].points[j].c <=> (j - 1) % Subdivision = 0
          ELSE \A j \in 1..Len(d[i].points) : ~d[i].points[j].c

HasFirstPoint(d) == Len(d) > 0 /\ Len(d[1].points) > 0

FirstPointOf(d) ==
  IF HasFirstPoint(d) THEN [x |-> d[1].points[1].x, y |-> d[1].points[1].y]
  ELSE [x |-> 0, y |-> 0]

LineHasCommon(d, i) == \E j \in 1..Len(d[i].points) : d[i].points[j].c
\* 0-based rank of line i among the main lines, of point j among the common points
MainRank(d, i) == Cardinality({h \in 1..(i - 1) : LineHasCommon(d, h)})
CommonRank(d, i, j) == Cardinality({h \in 1..(j - 1) : d[i].points[h].c})

\* common point j of main line k lies at first + (k * spacing, j * spacing)
IsAxisAligned(d, spacing) ==
  /\ HasFirstPoint(d)
  /\ spacing > 0
  /\ d[1].points[1].c
  /\ \A i \in 1..Len(d) : \A j \in 1..Len(d[i].points) :
       d[i].points[j].c =>
         /\ d[i].points[j].x = FirstPointOf(d).x + MainRank(d, i) * spacing * Scale
         /\ d[i].points[j].y = FirstPointOf(d).y + CommonRank(d, i, j) * spacing * Scale

\* every point of `after` is the point of `before` moved by (dx, dy)
IsTranslation(before, after, dx, dy) ==
  /\ Len(after) = Len(before)
  /\ \A i \in 1..Len(before) :
       /\ Len(after[i].points) = Len(before[i].points)
       /\ \A j \in 1..Len(before[i].points) :
            /\ after[i].points[j].x = before[i].points[j].x + dx
            /\ after[i].points[j].y = before[i].points[j].y + dy
            /\ after[i].points[j].c = before[i].points[j].c

UuidsOf(d) == [i \in 1..Len(d) |-> d[i].uuid]
\* a is b with some elements left out
RECURSIVE IsSubsequence(_, _)
IsSubsequence(a, b) ==
  IF a = <<>> THEN TRUE
  ELSE IF b = <<>> THEN FALSE
  ELSE IF Head(a) = Head(b) THEN IsSubsequence(Tail(a), Tail(b))
  ELSE IsSubsequence(a, Tail(b))

\* every line that is kept by the call carries the uuid it carried before
UuidsKept(s, op, r) ==
  IF op \in {"spacing", "angle", "rotateGrid", "setOffset"}
  THEN UuidsOf(Data(r)) = UuidsOf(Data(s))
  ELSE IF op \in {"showRefinementPoints", "noOfPrimaryLines", "noOfSecondaryLines"}
  THEN \/ IsSubsequence(UuidsOf(Data(r)), UuidsOf(Data(s)))
       \/ IsSubsequence(UuidsOf(Data(s)), UuidsOf(Data(r)))
  ELSE TRUE

NoFacts ==
  [lines |-> 0, points |-> 0, axisAligned |-> FALSE, first |-> [x |-> 0, y |-> 0],
   translated |-> FALSE, show |-> [img \in ImageIds |-> "undefined"], hadLines |-> {},
   uuids |-> {}, uuidsKept |-> TRUE, modifying |-> FALSE, dragged |-> 0,
   session |-> 0, afterRemoval |-> FALSE, othersKept |-> TRUE, refined |-> FALSE,
   moved |-> FALSE, mode |-> "none", topology |-> TRUE,
   retained |-> TRUE, grabbed |-> [t |-> Null, h |-> Null]]

StepFacts(s, op, input, r) ==
  IF op = "showRefinementPoints" /\ input = Boolean(TRUE) /\ IsUnrefined(Data(s))
  THEN [NoFacts EXCEPT !.lines = Len(Data(s)), !.points = Len(Data(s)[1].points)]
  ELSE IF op = "showRefinementPoints" /\ input = Boolean(FALSE) /\ HasGrid(s)
  THEN [NoFacts EXCEPT !.lines = Len(MainLinesOf(Data(s))), !.refined = IsRefined(Data(s))]
  ELSE IF op \in {"noOfPrimaryLines", "noOfSecondaryLines"} /\ HasFirstPoint(Data(s))
  THEN [NoFacts EXCEPT !.lines = Len(MainLinesOf(Data(s))),
                       !.points = Len(SelectSeq(Data(s)[1].points, LAMBDA p : p.c))]
  ELSE IF op = "spacing" /\ HasGrid(s)
  THEN [NoFacts EXCEPT !.axisAligned = IsAxisAligned(Data(s), GetSpacing(s)),
                       !.first = FirstPointOf(Data(s))]
  ELSE IF op = "setOffset" /\ HasGrid(s) /\ ~input.v.nan
  THEN [NoFacts EXCEPT !.translated =
          /\ HasFirstPoint(Data(s))
          /\ IsTranslation(Data(s), Data(r), input.v.x - FirstPointOf(Data(s)).x,
                           input.v.y - FirstPointOf(Data(s)).y)]
  ELSE IF op = "setStateForImageIds"
  THEN [NoFacts EXCEPT !.show = s.show,
                       !.hadLines = {img \in ImageIds : Len(s.data[img]) > 0},
                       !.uuids = {s.data[input.imageId][i].uuid :
                                    i \in 1..Len(s.data[input.imageId])}]
  ELSE NoFacts

\* The uuid of the line a drag session moves (0 without such a line)
DraggedLine(s) ==
  IF s.modifying /\ InRange(Data(s), s.currentTool) THEN At(Data(s), s.currentTool).uuid
  ELSE 0

\* The MEASUREMENT_COMPLETED events the pointer callbacks have fired since the
\* latest handle selection, while that drag session is open
SessionEvents(s, op, r) ==
  IF op = "handleSelectedCallback" THEN r.completed
  ELSE IF ~s.modifying THEN 0
  ELSE IF op \in {"_editMouseDragCallback", "_editMouseUpCallback"}
  THEN last.facts.session + r.completed
  ELSE last.facts.session

\* The call is a placement that directly follows the removal of a grid
AfterRemoval(op) ==
  op = "addNewMeasurement" /\ last.op = "removeGrid" /\ last.hadGrid

\* The call left the lines of every image other than the displayed one, and
\* what the spacing getter returns once that image is displayed, as they were
OthersKept(s, r) ==
  \A img \in ImageIds \ {s.image} :
    /\ r.data[img] = s.data[img]
    /\ GetSpacing([r EXCEPT !.image = img]) = GetSpacing([s EXCEPT !.image = img])

\* The drag event moved the grid as the mode asks: with moveOneHandleOnly the
\* grabbed point alone went to the pointer, otherwise every point moved by the
\* vector that takes the grabbed point to the pointer
DragMoved(s, op, input, r) ==
  /\ op = "_editMouseDragCallback"
  /\ InRange(Data(s), s.currentTool)
  /\ InRange(Points(s, s.currentTool), s.currentHandle)
  /\ LET t == s.currentTool + 1
         h == s.currentHandle + 1
         grabbed == Data(s)[t].points[h]
     IN IF s.moveOneHandleOnly
        THEN /\ Len(Data(r)) = Len(Data(s))
             /\ \A i \in 1..Len(Data(s)) :
                  /\ Len(Data(r)[i].points) = Len(Data(s)[i].points)
                  /\ \A j \in 1..Len(Data(s)[i].points) :
                       Data(r)[i].points[j] =
                         IF i = t /\ j = h
                         THEN [grabbed EXCEPT !.x = input.v.x, !.y = input.v.y]
                         ELSE Data(s)[i].points[j]
        ELSE /\ IsTranslation(Data(s), Data(r), input.v.x - grabbed.x, input.v.y - grabbed.y)
             /\ Data(r)[t].points[h].x = input.v.x
             /\ Data(r)[t].points[h].y = input.v.y

\* The mode the lines d are in: with or without refinement points
GridMode(d) ==
  IF IsRefined(d) THEN "true" ELSE IF IsUnrefined(d) THEN "false" ELSE "none"

\* The lines `after` are the lines `before` in the same order, each with as
\* many points and the same isCommonPoint flags
SameTopology(before, after) ==
  /\ UuidsOf(after) = UuidsOf(before)
  /\ \A i \in 1..Len(before) :
       /\ Len(after[i].points) = Len(before[i].points)
       /\ \A j \in 1..Len(before[i].points) :
            after[i].points[j].c = before[i].points[j].c

\* Every common point that `before` and `after` both have, at the same rank
\* among the main lines and among the common points of its line, is where it was
CommonPointsRetained(before, after) ==
  LET b == MainLinesOf(before)
      a == MainLinesOf(after)
  IN \A k \in 1..Min(Len(b), Len(a)) :
       \A j \in 1..Min(Len(b[k]), Len(a[k])) :
         /\ a[k][j].x = b[k][j].x
         /\ a[k][j].y = b[k][j].y

\* The point the open drag session was started on: the line and the point
\* handleSelectedCallback was given, for as long as _modifying stays set
Grabbed(op, input, r) ==
  IF ~r.modifying THEN NoFacts.grabbed
  ELSE IF op = "handleSelectedCallback" THEN [t |-> input.toolIndex, h |-> input.p]
  ELSE last.facts.grabbed

\* No round trip on doubles is under way
NoDoubles == [lines |-> <<>>, original |-> <<>>, angle |-> 0, phase |-> "idle", turns |-> 0]

\* One API call op(input) whose result is r
Call(op, input, r) ==
  /\ steps < MaxSteps
  /\ ~(r.cut \/ ~WithinBounds(r))
  /\ tool' = Fresh(r)
  /\ last' = [op |-> op, input |-> input, outcome |-> Outcome(tool, r),
              hadGrid |-> HasGrid(tool), changed |-> Fresh(r) # tool,
              kept |-> Kept(r) = Kept(tool),
              completed |-> r.completed, removed |-> r.removed,
              facts |-> [StepFacts(tool, op, input, r) EXCEPT
                           !.uuidsKept = UuidsKept(tool, op, r),
                           !.modifying = tool.modifying,
                           !.dragged = DraggedLine(tool),
                           !.session = SessionEvents(tool, op, r),
                           !.afterRemoval = AfterRemoval(op),
                           !.othersKept = OthersKept(tool, r),
                           !.moved = DragMoved(tool, op, input, r),
                           !.mode = GridMode(Data(tool)),
                           !.topology = SameTopology(Data(tool), Data(r)),
                           !.retained = CommonPointsRetained(Data(tool), Data(r)),
                           !.grabbed = Grabbed(op, input, r)]]
  /\ steps' = steps + 1
  /\ thrown' = (thrown \/ Outcome(tool, r) = "TypeError")
  /\ beforeEnable' = Snapshot(tool, op, input, r)
  /\ beforeResize' = ResizePair(tool, op, input)
  /\ doubles' = doubles

Init ==
  /\ tool = InitialTool
  /\ last = [op |-> "new", input |-> SomeString, outcome |-> "applied",
             hadGrid |-> FALSE, changed |-> FALSE, kept |-> TRUE, completed |-> 0, removed |-> 0,
             facts |-> NoFacts]
  /\ steps = 0
  /\ thrown = FALSE
  /\ beforeEnable = NoSnapshot
  /\ beforeResize = NoResize
  /\ doubles = NoDoubles

Place == Call("addNewMeasurement", SomeString, addNewMeasurement(tool, Anchor))

SetNoOfPrimaryLines ==
  \E input \in CountInputs : Call("noOfPrimaryLines", input, setNoOfPrimaryLines(tool, input))

SetNoOfSecondaryLines ==
  \E input \in CountInputs :
    Call("noOfSecondaryLines", input, setNoOfSecondaryLines(tool, input))

SetSpacing ==
  \E input \in SpacingInputs : Call("spacing", input, setSpacing(tool, input))

SetAngle ==
  \E input \in AngleInputs : Call("angle", input, setAngle(tool, input))

SetShowRefinementPoints ==
  \E input \in BooleanInputs :
    Call("showRefinementPoints", input, setShowRefinementPoints(tool, input))

SetMoveOneHandleOnly ==
  \E input \in BooleanInputs :
    Call("moveOneHandleOnly", input, setMoveOneHandleOnly(tool, input))

RotateGrid ==
  \E angle \in RotationInputs : Call("rotateGrid", Number(angle), rotateGrid(tool, angle))

SetOffset ==
  \E location \in OffsetInputs :
    Call("setOffset", [type |-> "location", v |-> location],
         setOffset(tool, location, FALSE))

RemoveGrid == Call("removeGrid", SomeString, removeGrid(tool))

\* The lines of an image are exported and stored for other images
SetStateForImageIds ==
  \E input \in CloneInputs :
    Call("setStateForImageIds", input,
         copyStateToImageIds(tool, input.imageId, input.compact, input.imageIds,
                             input.hasRefinementPoints))

\* The element is repainted between two calls
Render == Call("renderToolData", SomeString, renderToolData(tool))

Next ==
  \/ Place
  \/ SetNoOfPrimaryLines
  \/ SetNoOfSecondaryLines
  \/ SetSpacing
  \/ SetAngle
  \/ SetShowRefinementPoints
  \/ SetMoveOneHandleOnly
  \/ RotateGrid
  \/ SetOffset
  \/ RemoveGrid
  \/ SetStateForImageIds
  \/ Render

Spec == Init /\ [][Next]_vars

\* the handles a pointer can pick, as (line, point) indices
HandleInputs ==
  {[type |-> "handle", toolIndex |-> 0, p |-> 0],
   [type |-> "handle", toolIndex |-> 1, p |-> 2]}
\* the pointer during a drag, in pixels of the image
MouseInputs == {[nan |-> FALSE, x |-> 12 * Scale, y |-> 9 * Scale]}
DragInputs ==
  {[type |-> "drag", pressed |-> pressed, v |-> v] : pressed \in BOOLEAN, v \in MouseInputs}
\* the images the element can be made to display
DisplayInputs == {"imgA", "imgB"}

\* The pointer goes down on a handle of the displayed grid
HandleSelected ==
  \E input \in HandleInputs :
    /\ InRange(Data(tool), input.toolIndex)
    /\ At(Data(tool), input.toolIndex).handles
    /\ InRange(Points(tool, input.toolIndex), input.p)
    /\ Call("handleSelectedCallback", input,
            handleSelectedCallback(tool, input.toolIndex, input.p))

\* The pointer moves while the drag listeners are attached
MouseDrag ==
  \E input \in DragInputs :
    /\ tool.isToolLocked
    /\ Call("_editMouseDragCallback", input,
            editMouseDragCallback(tool, input.pressed, input.v))

\* The pointer goes up while the drag listeners are attached
MouseUp ==
  /\ tool.isToolLocked
  /\ Call("_editMouseUpCallback", SomeString, editMouseUpCallback(tool))

\* The element displays another image
NewImage ==
  \E imageId \in DisplayInputs \ {tool.image} :
    Call("newImageCallback", [type |-> "image", v |-> imageId],
         newImageCallback(tool, imageId))

\* The tool is set passive, enabled or disabled
ToPassive == Call("passiveCallback", SomeString, passiveCallback(tool))
ToEnabled == Call("enabledCallback", SomeString, enabledCallback(tool))
ToDisabled == Call("disabledCallback", SomeString, disabledCallback(tool))

NextEvents ==
  \/ Place
  \/ SetNoOfPrimaryLines
  \/ SetSpacing
  \/ SetShowRefinementPoints
  \/ SetMoveOneHandleOnly
  \/ RemoveGrid
  \/ HandleSelected
  \/ MouseDrag
  \/ MouseUp
  \/ NewImage
  \/ ToPassive
  \/ ToEnabled
  \/ ToDisabled

\* Calls, pointer events, changes of the displayed image and of the tool's mode
SpecEvents == Init /\ [][NextEvents]_vars

\* The element displays the image imageId: newImageCallback runs on the
\* NEW_IMAGE event and renderToolData when the image is drawn
displayImage(s, imageId) == renderToolData(newImageCallback(s, imageId))

\* the copies that store lines with their `handles` object
FullCloneInputs == {input \in CloneInputs : ~input.compact}

\* Another image is displayed and rendered
Display ==
  \E imageId \in DisplayInputs \ {tool.image} :
    Call("displayImage", [type |-> "image", v |-> imageId], displayImage(tool, imageId))

\* The lines of an image are exported in full and stored for other images,
\* hasRefinementPoints telling truly whether the exported lines are refined
SetFullStateForImageIds ==
  \E input \in FullCloneInputs :
    /\ input.hasRefinementPoints = IsRefined(tool.data[input.imageId])
    /\ Call("setStateForImageIds", input,
            copyStateToImageIds(tool, input.imageId, input.compact, input.imageIds,
                                input.hasRefinementPoints))

NextViews ==
  \/ Place
  \/ SetShowRefinementPoints
  \/ SetSpacing
  \/ SetOffset
  \/ RemoveGrid
  \/ SetFullStateForImageIds
  \/ Display
  \/ Render

\* Calls on grids that are placed on, copied to and viewed on several images
SpecViews == Init /\ [][NextViews]_vars

\* The calls that move points, on grids with and without refinement points,
\* by the API and by the pointer
NextMoves ==
  \/ Place
  \/ SetShowRefinementPoints
  \/ SetMoveOneHandleOnly
  \/ SetSpacing
  \/ SetAngle
  \/ RotateGrid
  \/ SetOffset
  \/ HandleSelected
  \/ MouseDrag
  \/ MouseUp
SpecMoves == Init /\ [][NextMoves]_vars

TypeOK ==
  /\ steps \in 0..MaxSteps
  /\ ~tool.err /\ ~tool.cut
  /\ tool.showGlobal \in BOOLEAN

\* The lines of the displayed image all have their `handles` object: lines
\* without it are only ever stored for the other images.
DisplayedLinesHaveHandles == \A i \in 1..Len(Data(tool)) : Data(tool)[i].handles

-----------------------------------------------------------------------------
(* IEEE 754 double arithmetic                                              *)
(* Coordinates are JavaScript numbers.  A double is sign * m * 2^e with m  *)
(* a natural number of at most 53 bits, kept here as a sequence of limbs   *)
(* (least significant first) because m does not fit a 32-bit integer.      *)
(* Zero is the empty sequence; a non-zero m is kept odd.                   *)

LimbBits == 15
LimbBase == 2 ^ LimbBits
MantissaBits == 53

\* a without its leading zero limbs
RECURSIVE BigNorm(_)
BigNorm(a) ==
  IF Len(a) > 0 /\ a[Len(a)] = 0 THEN BigNorm(SubSeq(a, 1, Len(a) - 1)) ELSE a

BigOfNat(n) == BigNorm(<<n % LimbBase, (n \div LimbBase) % LimbBase, n \div (LimbBase * LimbBase)>>)

Limb(a, i) == IF i <= Len(a) THEN a[i] ELSE 0

RECURSIVE BigAddFrom(_, _, _, _)
BigAddFrom(a, b, i, carry) ==
  IF i > Max(Len(a), Len(b)) THEN (IF carry = 0 THEN <<>> ELSE <<carry>>)
  ELSE LET t == Limb(a, i) + Limb(b, i) + carry
       IN <<t % LimbBase>> \o BigAddFrom(a, b, i + 1, t \div LimbBase)

BigAdd(a, b) == BigAddFrom(a, b, 1, 0)

\* a - b for a >= b
RECURSIVE BigSubFrom(_, _, _, _)
BigSubFrom(a, b, i, borrow) ==
  IF i > Len(a) THEN <<>>
  ELSE LET t == Limb(a, i) - Limb(b, i) - borrow
       IN <<t % LimbBase>> \o BigSubFrom(a, b, i + 1, IF t < 0 THEN 1 ELSE 0)

BigSub(a, b) == BigNorm(BigSubFrom(a, b, 1, 0))

\* -1, 0, 1 as a < b, a = b, a > b, comparing limbs i, i - 1, ..., 1
RECURSIVE BigCmpFrom(_, _, _)
BigCmpFrom(a, b, i) ==
  IF i = 0 THEN 0
  ELSE IF a[i] < b[i] THEN -1
  ELSE IF a[i] > b[i] THEN 1
  ELSE BigCmpFrom(a, b, i - 1)

BigCmp(a, b) ==
  IF Len(a) < Len(b) THEN -1
  ELSE IF Len(a) > Len(b) THEN 1
  ELSE BigCmpFrom(a, b, Len(a))

\* a * k for a limb k
RECURSIVE BigMulLimbFrom(_, _, _, _)
BigMulLimbFrom(a, k, i, carry) ==
  IF i > Len(a) THEN (IF carry = 0 THEN <<>> ELSE <<carry>>)
  ELSE LET t == a[i] * k + carry
       IN <<t % LimbBase>> \o BigMulLimbFrom(a, k, i + 1, t \div LimbBase)

BigMulLimb(a, k) == BigNorm(BigMulLimbFrom(a, k, 1, 0))

ZeroLimbs(n) == [i \in 1..n |-> 0]

RECURSIVE BigMulFrom(_, _, _)
BigMulFrom(a, b, i) ==
  IF i > Len(b) THEN <<>>
  ELSE BigAdd(BigNorm(ZeroLimbs(i - 1) \o BigMulLimb(a, b[i])), BigMulFrom(a, b, i + 1))

BigMul(a, b) == BigNorm(BigMulFrom(a, b, 1))

\* a * 2^k
BigShl(a, k) ==
  IF Len(a) = 0 THEN a
  ELSE ZeroLimbs(k \div LimbBits) \o BigMulLimb(a, 2 ^ (k % LimbBits))

\* floor(a / k) for a limb k > 0, dividing limbs i, i - 1, ..., 1
RECURSIVE BigDivLimbFrom(_, _, _, _)
BigDivLimbFrom(a, k, i, rem) ==
  IF i = 0 THEN <<>>
  ELSE LET t == rem * LimbBase + a[i]
       IN BigDivLimbFrom(a, k, i - 1, t % k) \o <<t \div k>>

\* floor(a / 2^k)
BigShr(a, k) ==
  LET q == k \div LimbBits
      high == IF q >= Len(a) THEN <<>> ELSE SubSeq(a, q + 1, Len(a))
  IN BigNorm(BigDivLimbFrom(high, 2 ^ (k % LimbBits), Len(high), 0))

RECURSIVE BitsOfLimb(_)
BitsOfLimb(n) == IF n = 0 THEN 0 ELSE 1 + BitsOfLimb(n \div 2)

BigBitLen(a) == IF Len(a) = 0 THEN 0 ELSE LimbBits * (Len(a) - 1) + BitsOfLimb(a[Len(a)])

BigIsOdd(a) == Len(a) > 0 /\ a[1] % 2 = 1

RECURSIVE TrailingZerosOfLimb(_)
TrailingZerosOfLimb(n) == IF n % 2 = 1 THEN 0 ELSE 1 + TrailingZerosOfLimb(n \div 2)

\* number of trailing zero bits of a > 0
RECURSIVE BigTrailingZeros(_, _)
BigTrailingZeros(a, i) ==
  IF a[i] = 0 THEN LimbBits + BigTrailingZeros(a, i + 1) ELSE TrailingZerosOfLimb(a[i])

DoubleZero == [neg |-> FALSE, m |-> <<>>, e |-> 0]

\* sign * m * 2^e with the trailing zero bits of m moved into e
Canonical(neg, m, e) ==
  IF Len(m) = 0 THEN DoubleZero
  ELSE LET z == BigTrailingZeros(m, 1)
       IN [neg |-> neg, m |-> BigShr(m, z), e |-> e + z]

\* The double nearest to sign * m * 2^e, ties to the even mantissa
RoundToDouble(neg, m, e) ==
  LET drop == BigBitLen(m) - MantissaBits
  IN IF drop <= 0 THEN Canonical(neg, m, e)
     ELSE LET q == BigShr(m, drop)
              rest == BigSub(m, BigShl(q, drop))
              half == BigCmp(rest, BigShl(<<1>>, drop - 1))
              up == half = 1 \/ (half = 0 /\ BigIsOdd(q))
          IN Canonical(neg, IF up THEN BigAdd(q, <<1>>) ELSE q, e + drop)

\* the exact sum of two doubles, as sign, magnitude and exponent
ExactSum(a, b) ==
  LET e == IF a.e < b.e THEN a.e ELSE b.e
      am == BigShl(a.m, a.e - e)
      bm == BigShl(b.m, b.e - e)
  IN IF a.neg = b.neg THEN [neg |-> a.neg, m |-> BigAdd(am, bm), e |-> e]
     ELSE IF BigCmp(am, bm) >= 0 THEN [neg |-> a.neg, m |-> BigSub(am, bm), e |-> e]
     ELSE [neg |-> b.neg, m |-> BigSub(bm, am), e |-> e]

DoubleNeg(a) == IF Len(a.m) = 0 THEN a ELSE [a EXCEPT !.neg = ~@]
DoubleAdd(a, b) == LET t == ExactSum(a, b) IN RoundToDouble(t.neg, t.m, t.e)
DoubleSub(a, b) == DoubleAdd(a, DoubleNeg(b))
DoubleMul(a, b) == RoundToDouble(a.neg # b.neg, BigMul(a.m, b.m), a.e + b.e)
DoubleHalf(a) == IF Len(a.m) = 0 THEN a ELSE [a EXCEPT !.e = @ - 1]
\* n / 2^bits as a double
DoubleOf(n, bits) == RoundToDouble(n < 0, BigOfNat(Abs(n)), -bits)

\* Math.cos((angle * Math.PI) / 180) and Math.sin((angle * Math.PI) / 180) as
\* the doubles the JavaScript engine returns for the angles below
QuarterTurnCosine == [neg |-> FALSE, m |-> <<23559, 26152, 6296, 141>>, e |-> -106]
HalfTurnSine == [neg |-> FALSE, m |-> <<23559, 26152, 6296, 141>>, e |-> -105]
EighthTurnCosine == [neg |-> FALSE, m |-> <<15309, 19710, 633, 181>>, e |-> -53]
EighthTurnSine == [neg |-> FALSE, m |-> <<20211, 13119, 8350, 45>>, e |-> -51]
DoubleOne == [neg |-> FALSE, m |-> <<1>>, e |-> 0]

MathCos(angle) ==
  CASE angle \in {90, -90} -> QuarterTurnCosine
    [] angle \in {180, -180} -> DoubleNeg(DoubleOne)
    [] angle \in {45, -45} -> EighthTurnCosine

MathSin(angle) ==
  CASE angle = 90 -> DoubleOne
    [] angle = -90 -> DoubleNeg(DoubleOne)
    [] angle = 180 -> HalfTurnSine
    [] angle = -180 -> DoubleNeg(HalfTurnSine)
    [] angle = 45 -> EighthTurnSine
    [] angle = -45 -> DoubleNeg(EighthTurnSine)

\* getGridMiddlePointCoords() on lines whose coordinates are doubles
MiddleOfDoubles(lines) ==
  LET upperLeft == lines[1][1]
      lastLine == lines[Len(lines)]
      bottomRight == lastLine[Len(lastLine)]
  IN [x |-> DoubleHalf(DoubleAdd(upperLeft.x, bottomRight.x)),
      y |-> DoubleHalf(DoubleAdd(upperLeft.y, bottomRight.y))]

\* The loop of rotateGrid(angle) with x * c + y * s for the new x
RotateAboutMirrored(lines, angle, middle) ==
  LET c == MathCos(angle)
      s == MathSin(angle)
      Rotated(point) ==
        LET x == DoubleSub(point.x, middle.x)
            y == DoubleSub(point.y, middle.y)
        IN [x |-> DoubleAdd(DoubleAdd(DoubleMul(x, c), DoubleMul(y, s)), middle.x),
            y |-> DoubleAdd(DoubleAdd(DoubleMul(x, s), DoubleMul(y, c)), middle.y)]
  IN [i \in 1..Len(lines) |-> [j \in 1..Len(lines[i]) |-> Rotated(lines[i][j])]]

\* The loop of rotateGrid(angle) about the point middle
RotateAbout(lines, angle, middle) ==
  LET c == MathCos(angle)
      s == MathSin(angle)
      Rotated(point) ==
        LET x == DoubleSub(point.x, middle.x)
            y == DoubleSub(point.y, middle.y)
        IN [x |-> DoubleAdd(DoubleSub(DoubleMul(x, c), DoubleMul(y, s)), middle.x),
            y |-> DoubleAdd(DoubleAdd(DoubleMul(x, s), DoubleMul(y, c)), middle.y)]
  IN [i \in 1..Len(lines) |-> [j \in 1..Len(lines[i]) |-> Rotated(lines[i][j])]]

\* rotateGrid(angle) on the coordinates of a grid, in double arithmetic
RotateDoubles(lines, angle) == RotateAbout(lines, angle, MiddleOfDoubles(lines))

-----------------------------------------------------------------------------
(* The rotation round trip on doubles *)

\* The angles passed to rotateGrid
DoubleAngles == {45, 90, 180, -45, -90, -180}

\* The coordinates of the displayed grid as doubles, line by line
DoublesOf(s) ==
  [i \in 1..Len(Data(s)) |->
     [j \in 1..Len(Data(s)[i].points) |->
        [x |-> DoubleOf(Data(s)[i].points[j].x, ScaleBits),
         y |-> DoubleOf(Data(s)[i].points[j].y, ScaleBits)]]]

\* The grid is made before it is rotated: placed, then resized, respaced,
\* refined or moved
MakeGrid ==
  /\ doubles = NoDoubles
  /\ steps < MaxShapes
  /\ \/ ~HasGrid(tool) /\ Place
     \/ HasGrid(tool) /\ Call("noOfPrimaryLines", Number(2), setNoOfPrimaryLines(tool, Number(2)))
     \/ HasGrid(tool) /\ Call("noOfSecondaryLines", Number(4), setNoOfSecondaryLines(tool, Number(4)))
     \/ HasGrid(tool) /\ Call("spacing", Number(2 * DefaultSpacing),
                               setSpacing(tool, Number(2 * DefaultSpacing)))
     \/ HasGrid(tool) /\ Call("showRefinementPoints", Boolean(TRUE),
                               setShowRefinementPoints(tool, Boolean(TRUE)))
     \/ HasGrid(tool) /\ Call("setOffset",
                               [type |-> "location",
                                v |-> [nan |-> FALSE, x |-> 8 * Scale, y |-> 8 * Scale]],
                               setOffset(tool, [nan |-> FALSE, x |-> 8 * Scale, y |-> 8 * Scale],
                                         FALSE))

\* The coordinates the next rotation starts from
CurrentDoubles == IF doubles = NoDoubles THEN DoublesOf(tool) ELSE doubles.lines

\* rotateGrid(angle) on a grid that is not half way through a round trip
RotateThere ==
  /\ HasGrid(tool)
  /\ doubles.phase # "there"
  /\ doubles.turns < MaxTurns
  /\ \E angle \in DoubleAngles :
       doubles' = [lines |-> RotateDoubles(CurrentDoubles, angle), original |-> CurrentDoubles,
                   angle |-> angle, phase |-> "there", turns |-> doubles.turns + 1]
  /\ UNCHANGED <<tool, last, steps, thrown, beforeEnable, beforeResize>>

\* rotateGrid(-angle) after rotateGrid(angle)
RotateBack ==
  /\ doubles.phase = "there"
  /\ doubles.turns < MaxTurns
  /\ doubles' = [doubles EXCEPT !.lines = RotateDoubles(@, -doubles.angle),
                                !.phase = "back", !.turns = @ + 1]
  /\ UNCHANGED <<tool, last, steps, thrown, beforeEnable, beforeResize>>

NextDoubles == MakeGrid \/ RotateThere \/ RotateBack

SpecDoubles == Init /\ [][NextDoubles]_vars

-----------------------------------------------------------------------------
(* Properties of the grid after a call *)

Lines == Data(tool)
NoOfLines == Len(Lines)
Line(i) == At(Lines, i)
LineIndices == 0..(NoOfLines - 1)
PointIndices(i) == 0..(Len(Line(i).points) - 1)
IsCommonPoint(i, j) == At(Line(i).points, j).c
HasCommonPoint(i) == \E j \in PointIndices(i) : IsCommonPoint(i, j)
NoOfCommonPoints(i) == Cardinality({j \in PointIndices(i) : IsCommonPoint(i, j)})
RefinementShown == GetShowRefinementPoints(tool)
\* every call so far returned or was rejected by a type check
NoCallFailed == ~thrown

\* C1 (I2): after every completed operation, on an image with a grid: while
\* the showRefinementPoints getter returns true, line i has common points iff
\* i % 4 = 0 and every other line has only non-common points; while it returns
\* false every line is a main line.
C1_MainLineSpacing ==
  (NoCallFailed /\ HasGrid(tool)) =>
    IF RefinementShown
    THEN \A i \in LineIndices :
           /\ HasCommonPoint(i) <=> (i % Subdivision = 0)
           /\ (i % Subdivision # 0) => \A j \in PointIndices(i) : ~IsCommonPoint(i, j)
    ELSE \A i \in LineIndices : HasCommonPoint(i)

\* C2 (I3): after every completed operation, with refinement enabled the point
\* at position j of a main line is a common point iff j % 4 = 0 and no point of
\* a subsidiary line is a common point; with refinement disabled every point
\* of every line is a common point.
C2_CommonPointSpacing ==
  (NoCallFailed /\ HasGrid(tool)) =>
    IF RefinementShown
    THEN \A i \in LineIndices : \A j \in PointIndices(i) :
           IsCommonPoint(i, j) <=> (i % Subdivision = 0 /\ j % Subdivision = 0)
    ELSE \A i \in LineIndices : \A j \in PointIndices(i) : IsCommonPoint(i, j)

\* C3 (I4): after every completed operation every main line holds the same
\* number of common points, the number the noOfSecondaryLines getter returns.
C3_UniformCommonPointCount ==
  (NoCallFailed /\ HasGrid(tool)) =>
    \A i \in LineIndices :
      HasCommonPoint(i) => NoOfCommonPoints(i) = GetNoOfSecondaryLines(tool)

IsResize(op) == op \in {"noOfPrimaryLines", "noOfSecondaryLines"}

\* C4 (I1): after every completed operation the line list is empty or has at
\* least 2 lines of at least 2 points each, and a resize call on a grid never
\* leaves the list empty.
C4_MinimumSize ==
  NoCallFailed =>
    /\ NoOfLines = 0 \/
         (NoOfLines >= 2 /\ \A i \in LineIndices : Len(Line(i).points) >= 2)
    /\ (IsResize(last.op) /\ last.hadGrid) => NoOfLines # 0

ValidCount(input) == input.type = "number" /\ input.v >= 2

\* C5: after `noOfPrimaryLines = n` (n >= 2) on an image with a grid the
\* noOfPrimaryLines getter returns n, there are n lines without refinement and
\* 4*(n-1)+1 lines with it, and the last line is a main line.
C5_PrimaryLineCount ==
  (NoCallFailed /\ last.op = "noOfPrimaryLines" /\ last.hadGrid /\ ValidCount(last.input)) =>
    /\ GetNoOfPrimaryLines(tool) = last.input.v
    /\ NoOfLines = IF RefinementShown THEN Subdivision * (last.input.v - 1) + 1
                                      ELSE last.input.v
    /\ HasCommonPoint(NoOfLines - 1)

\* C6: after `noOfSecondaryLines = n` (n >= 2) on an image with a grid the
\* noOfSecondaryLines getter returns n; without refinement every line has n
\* points; with refinement every main line has 4*(n-1)+1 points, the last one
\* a common point, and every subsidiary line has n points.
C6_SecondaryLineCount ==
  (NoCallFailed /\ last.op = "noOfSecondaryLines" /\ last.hadGrid /\ ValidCount(last.input)) =>
    /\ GetNoOfSecondaryLines(tool) = last.input.v
    /\ \A i \in LineIndices :
         IF ~RefinementShown THEN Len(Line(i).points) = last.input.v
         ELSE IF i % Subdivision = 0
              THEN /\ Len(Line(i).points) = Subdivision * (last.input.v - 1) + 1
                   /\ IsCommonPoint(i, Len(Line(i).points) - 1)
              ELSE Len(Line(i).points) = last.input.v

Mutators ==
  {"noOfPrimaryLines", "noOfSecondaryLines", "spacing", "angle", "showRefinementPoints",
   "rotateGrid", "setOffset"}

\* C7: a mutator call that fails leaves the lines, the configuration and the
\* session flags as they were before the call.
C7_AtomicMutators ==
  (last.op \in Mutators /\ last.outcome \in {"TypeError", "Error"}) => last.kept

NumberSetters == {"noOfPrimaryLines", "noOfSecondaryLines", "spacing", "angle"}
BooleanSetters == {"showRefinementPoints", "moveOneHandleOnly"}

WrongType(op, input) ==
  \/ op \in NumberSetters /\ input.type \notin {"number", "NaN"}
  \/ op \in BooleanSetters /\ input.type # "boolean"

OutOfRange(op, input) ==
  \/ op \in NumberSetters /\ input.type = "NaN"
  \/ op \in {"noOfPrimaryLines", "noOfSecondaryLines"} /\ input.type = "number" /\ input.v < 2
  \/ op = "spacing" /\ input.type = "number" /\ input.v < 1
  \/ op = "angle" /\ input.type = "number" /\ (input.v < 0 \/ input.v > 90)
  \/ op = "setOffset" /\ (input.v.nan \/ input.v.x < 0 \/ input.v.y < 0)

\* C8: a setter given a value of the wrong type raises an error, an
\* out-of-range number is silently ignored; either way nothing changes and no
\* completed event is fired.
C8_InvalidInputRejected ==
  /\ WrongType(last.op, last.input) =>
       (last.outcome = "Error" /\ ~last.changed /\ last.completed = 0)
  /\ OutOfRange(last.op, last.input) =>
       (last.outcome = "ignored" /\ ~last.changed /\ last.completed = 0)

\* an invalid value of each kind has been given to a setter of an existing grid
C8_Witness ==
  /\ HasGrid(tool)
  /\ last.op = "spacing"
  /\ last.input = Number(0)
  /\ last.hadGrid

QueriesEmpty(s) ==
  /\ AngleKind(s) = "null"
  /\ GetNoOfPrimaryLines(s) = Null
  /\ GetTotalNoOfPrimaryLines(s) = Null
  /\ GetNoOfSecondaryLines(s) = Null
  /\ GetTotalNoOfSecondaryLines(s) = Null
  /\ GetSpacing(s) = Null
  /\ ShowRefinementPointsValue(s) = "null"
  /\ getGridMiddlePointCoords(s).kind = "null"
  /\ getStateForImageId(s, s.image, FALSE) = [kind |-> "lines", lines |-> <<>>]
  /\ ~hasGridForImageIds(s, <<s.image>>)

\* C9: on an image with no grid (never placed, removed, or after a rejected or
\* failed mutator call on such an image) every query returns its empty result
\* and none throws.
C9_MissingGridQueries ==
  (~HasGrid(tool) \/ (~last.hadGrid /\ last.op # "addNewMeasurement")) => QueriesEmpty(tool)

CommonPointsOf(line) == SelectSeq(line.points, LAMBDA p : p.c)

C11_RefinementShape ==
  (last.op = "showRefinementPoints" /\ last.input = Boolean(TRUE) /\ last.facts.lines > 0) =>
    /\ NoOfLines = Subdivision * (last.facts.lines - 1) + 1
    /\ beforeEnable.phase = "enabled"
    /\ \A k \in 0..(last.facts.lines - 1) :
         /\ InRange(Lines, Subdivision * k)
         /\ Len(Line(Subdivision * k).points) = Subdivision * (last.facts.points - 1) + 1
         /\ CommonPointsOf(Line(Subdivision * k)) = At(beforeEnable.lines, k).points

\* C13: placement on an image without a grid puts point j of main line k at
\* (position.x + k * spacing, position.y + j * spacing), whatever ran on the
\* tool before.
C13_PlacementAnchored ==
  (last.op = "addNewMeasurement" /\ ~last.hadGrid /\ last.outcome = "applied") =>
    /\ NoOfLines = DefaultNoOfPrimaryLines
    /\ \A k \in LineIndices :
         /\ Len(Line(k).points) = DefaultNoOfSecondaryLines
         /\ \A j \in PointIndices(k) :
              /\ At(Line(k).points, j).x = Anchor.x + k * GetSpacing(tool) * Scale
              /\ At(Line(k).points, j).y = Anchor.y + j * GetSpacing(tool) * Scale

\* a non-common point lies a quarter of the spacing from its neighbour
AtQuarterSteps(d, spacing) ==
  \A i \in 1..Len(d) : \A j \in 1..Len(d[i].points) :
    ~d[i].points[j].c =>
      IF LineHasCommon(d, i)
      THEN /\ d[i].points[j].x = FirstPointOf(d).x + MainRank(d, i) * spacing * Scale
           /\ Subdivision * (d[i].points[j].y - FirstPointOf(d).y) = (j - 1) * spacing * Scale
      ELSE /\ Subdivision * (d[i].points[j].x - FirstPointOf(d).x) = (i - 1) * spacing * Scale
           /\ d[i].points[j].y = FirstPointOf(d).y + (j - 1) * spacing * Scale

ValidSpacing(input) == input.type = "number" /\ input.v >= 1

\* C14: `spacing = s2` (s2 >= 1) on an axis-aligned grid keeps the first point
\* of the first line, puts common point j of main line k at
\* first + (k * s2, j * s2), makes the spacing getter return s2 and, with
\* refinement enabled, puts every other point at its quarter step.
C14_SpacingRescales ==
  (last.op = "spacing" /\ ValidSpacing(last.input) /\ last.hadGrid /\ last.facts.axisAligned) =>
    /\ last.outcome \in {"applied", "ignored"}
    /\ FirstPointOf(Lines) = last.facts.first
    /\ IsAxisAligned(Lines, last.input.v)
    /\ GetSpacing(tool) = last.input.v
    /\ RefinementShown => AtQuarterSteps(Lines, last.input.v)

ValidLocation(input) == ~input.v.nan /\ input.v.x >= 0 /\ input.v.y >= 0

\* C15: setOffset(p) with valid p on an image with a grid moves every point by
\* one and the same vector, so that the first point of the first line is at p;
\* the numbers of lines and of points are kept.
C15_OffsetTranslates ==
  (last.op = "setOffset" /\ ValidLocation(last.input) /\ last.hadGrid) =>
    /\ last.facts.translated
    /\ FirstPointOf(Lines) = [x |-> last.input.v.x, y |-> last.input.v.y]

ValidAngle(input) == input.type = "number" /\ input.v >= 0 /\ input.v <= 90

\* 1e-6 as a double
Tolerance == [neg |-> FALSE, m |-> <<28045, 16747, 7134, 134>>, e |-> -72]

\* |a - b| <= 1e-6, on the exact difference
DoubleWithin(a, b) ==
  LET d == ExactSum(a, DoubleNeg(b))
      t == ExactSum([d EXCEPT !.neg = FALSE], DoubleNeg(Tolerance))
  IN Len(t.m) = 0 \/ t.neg

RoundTripDone == doubles.phase = "back"
RoundTripExact == doubles.lines = doubles.original
RoundTripClose ==
  \A i \in 1..Len(doubles.lines) : \A j \in 1..Len(doubles.lines[i]) :
    /\ DoubleWithin(doubles.lines[i][j].x, doubles.original[i][j].x)
    /\ DoubleWithin(doubles.lines[i][j].y, doubles.original[i][j].y)

\* C16: rotateGrid(t) followed by rotateGrid(-t) restores the coordinates of
\* every point, exactly when t is a multiple of 90 degrees and within 1e-6
\* otherwise.
C16_RotationRoundTrip ==
  RoundTripDone => IF doubles.angle % 90 = 0 THEN RoundTripExact ELSE RoundTripClose

\* C16 as amended: rotateGrid(t) followed by rotateGrid(-t) restores the
\* coordinates of every point within 1e-6, for every angle t.
C16_RoundTripWithinTolerance == RoundTripDone => RoundTripClose

\* a round trip by a multiple of 90 degrees that did not restore every
\* coordinate exactly
C16_Witness == RoundTripDone /\ doubles.angle % 90 = 0 /\ ~RoundTripExact

\* C17: `angle = a` (0 <= a <= 90) on an image with a grid makes the angle
\* getter return a.
C17_AngleSetGet ==
  (last.op = "angle" /\ ValidAngle(last.input) /\ last.hadGrid) =>
    AngleKind(tool) = ToString(last.input.v)

\* C12: on a grid of n main lines, `noOfPrimaryLines = m` (m >= 2) followed
\* by `noOfPrimaryLines = n` leaves every main line with the common points it
\* had before the two calls, with refinement disabled and enabled.
C12_ResizeSymmetry ==
  beforeResize.phase = "second" => MainLinesOf(Lines) = beforeResize.mains

\* The tool with image imageId displayed by the element
Displaying(s, imageId) == [s EXCEPT !.image = imageId]

IsCopy == last.op = "setStateForImageIds"
Targets == {last.input.imageIds[k] : k \in 1..Len(last.input.imageIds)}
PointsOfLines(lines) == [i \in 1..Len(lines) |-> lines[i].points]

\* C18: after the compact export of an image with a grid has been stored for a
\* fresh image dst, the compact export of dst has the points of the source's,
\* line by line (x, y, isCommonPoint), and the noOfPrimaryLines and
\* noOfSecondaryLines getters return for dst what they return for the source.
C18_ExportCloneRoundTrip ==
  (IsCopy /\ last.input.compact /\ last.input.imageId \in last.facts.hadLines) =>
    \A dst \in Targets \ last.facts.hadLines :
      /\ last.outcome # "TypeError"
      /\ getStateForImageId(tool, dst, TRUE).kind = "lines"
      /\ getStateForImageId(tool, last.input.imageId, TRUE).kind = "lines"
      /\ PointsOfLines(getStateForImageId(tool, dst, TRUE).lines)
           = PointsOfLines(getStateForImageId(tool, last.input.imageId, TRUE).lines)
      /\ GetNoOfPrimaryLines(Displaying(tool, dst)) # Thrown
      /\ GetNoOfSecondaryLines(Displaying(tool, dst)) # Thrown
      /\ GetNoOfPrimaryLines(Displaying(tool, dst))
           = GetNoOfPrimaryLines(Displaying(tool, last.input.imageId))
      /\ GetNoOfSecondaryLines(Displaying(tool, dst))
           = GetNoOfSecondaryLines(Displaying(tool, last.input.imageId))

UuidSet(imageId) == {tool.data[imageId][i].uuid : i \in 1..Len(tool.data[imageId])}

\* C19 (I7): resize, refinement toggle, spacing, rotation and translation leave
\* the uuid of every line they keep as it was, and setStateForImageIds gives
\* every line it stores a uuid that no source line and no other stored line
\* carries.
C19_UuidIdentity ==
  /\ last.facts.uuidsKept
  /\ (IsCopy /\ last.outcome # "TypeError") =>
       \A dst \in Targets :
         /\ Cardinality(UuidSet(dst)) = Len(tool.data[dst])
         /\ UuidSet(dst) \cap last.facts.uuids = {}
         /\ \A other \in ImageIds \ {dst} : UuidSet(dst) \cap UuidSet(other) = {}

\* a refined grid has been copied to two images, after a resize
C19_Witness ==
  /\ IsCopy
  /\ Cardinality(Targets) = 2
  /\ Len(Data(tool)) > DefaultNoOfPrimaryLines
  /\ \A dst \in Targets : Len(tool.data[dst]) = Len(Data(tool))

\* C20: after setStateForImageIds(lines, imageIds, flag) the refinement setting
\* recorded for every image of imageIds is flag, whether or not the displayed
\* image has a grid, and the settings of the other images are as before.
C20_FlagRecorded ==
  (IsCopy /\ last.outcome # "TypeError") =>
    \A img \in ImageIds :
      tool.show[img] = IF img \in Targets THEN BoolStr(last.input.hasRefinementPoints)
                       ELSE last.facts.show[img]

\* The lists of image ids passed to hasGridForImageIds: all lists of up to
\* MaxIds ids, the empty list and lists with duplicates among them
ImageIdLists == UNION {[1..n -> ImageIds] : n \in 0..MaxIds}

\* C21: hasGridForImageIds(imageIds) is true exactly when every id of the list
\* has a non-empty stored line list: true for the empty list, false when one
\* image has no lines or its grid was removed, whatever ids are repeated.
C21_HasGridForImageIds ==
  \A imageIds \in ImageIdLists :
    hasGridForImageIds(tool, imageIds)
      <=> \A k \in 1..Len(imageIds) : Len(tool.data[imageIds[k]]) > 0

\* the displayed grid was removed while a copy of it is stored for imgB: the
\* query is true for imgB listed twice and false once imgA is listed
C21_Witness ==
  /\ last.op = "removeGrid" /\ last.hadGrid
  /\ hasGridForImageIds(tool, <<"imgB", "imgB">>)
  /\ ~hasGridForImageIds(tool, <<"imgB", "imgA">>)
  /\ hasGridForImageIds(tool, <<>>)

\* The callbacks that take the tool away from what it was doing
Transitions == {"newImageCallback", "passiveCallback", "enabledCallback", "disabledCallback"}

\* No line stored for any image with the uuid `uuid` is active (or highlighted:
\* the two flags are always written together)
LineInactive(uuid) ==
  \A img \in ImageIds : \A i \in 1..Len(tool.data[img]) :
    tool.data[img][i].uuid = uuid => ~tool.data[img][i].active

\* C22: when newImageCallback, passiveCallback, enabledCallback or
\* disabledCallback runs during a drag session started by
\* handleSelectedCallback, then on return the dragged line is inactive and not
\* highlighted, _modifying and state.isToolLocked are false, and
\* currentTool / currentHandle are reset.
C22_TransitionFinalizesSession ==
  (last.op \in Transitions /\ last.facts.modifying) =>
    /\ ~tool.modifying
    /\ ~tool.isToolLocked
    /\ LineInactive(last.facts.dragged)
    /\ tool.currentHandle = 0
    /\ tool.currentTool \in {0, -1}

\* C23: _drawing and _modifying are never both true in a state that can be
\* observed between two external events, whatever the interleaving of
\* placement, setters, handleSelectedCallback, drag events and mouse-up.
C23_DrawingExcludesModifying == ~(tool.drawing /\ tool.modifying)

\* The calls that are one logical edit each
Edits ==
  {"addNewMeasurement", "noOfPrimaryLines", "noOfSecondaryLines", "spacing", "angle",
   "rotateGrid", "setOffset", "showRefinementPoints"}

\* C24: every logical edit that changes state (a resize, a spacing change, a
\* rotation, a programmatic setOffset, a refinement toggle, the initial
\* placement) fires MEASUREMENT_COMPLETED exactly once, a drag session fires it
\* exactly once from handle selection to mouse-up, and removeGrid fires
\* MEASUREMENT_REMOVED exactly once and no completed event.
C24_OneNotificationPerEdit ==
  /\ (last.op \in Edits /\ last.outcome = "applied" /\ last.changed) => last.completed = 1
  /\ (last.op = "_editMouseUpCallback" /\ last.facts.modifying /\ last.outcome = "applied")
       => last.facts.session = 1
  /\ last.op = "removeGrid" => (last.removed = 1 /\ last.completed = 0)

\* C25: removeGrid on an image with a grid leaves that image with zero lines,
\* without a per-image refinement setting and without a stored spacing (the
\* default 5 applies), and a placement that follows on that image builds a
\* grid with the default spacing and the default numbers of lines.
C25_RemoveGridResets ==
  /\ (last.op = "removeGrid" /\ last.hadGrid) =>
       /\ Len(Data(tool)) = 0
       /\ tool.show[tool.image] = "undefined"
       /\ tool.spacing[tool.image] = Null
  /\ (last.op = "addNewMeasurement" /\ last.facts.afterRemoval) =>
       /\ GetSpacing(tool) = DefaultSpacing
       /\ IsAxisAligned(Data(tool), DefaultSpacing)
       /\ GetNoOfPrimaryLines(tool) = DefaultNoOfPrimaryLines
       /\ GetNoOfSecondaryLines(tool) = DefaultNoOfSecondaryLines

\* a grid is placed right after the removal of a grid
C25_Witness ==
  /\ last.op = "addNewMeasurement" /\ last.facts.afterRemoval
  /\ last.outcome = "applied"
  /\ HasGrid(tool)

\* C26: a mutator or removeGrid called while one image is displayed leaves the
\* lines, the point coordinates and the stored spacing of every other image
\* (the value the spacing getter returns once that image is displayed) unchanged.
C26_ImagesIndependent ==
  last.op \in Mutators \cup {"removeGrid"} => last.facts.othersKept

\* The common points of the main lines of the displayed grid, line by line
MainLines == MainLinesOf(Lines)

\* p = 2 * prev - prevprev
RepeatsStep(p, prev, prevprev) ==
  /\ p.x = 2 * prev.x - prevprev.x
  /\ p.y = 2 * prev.y - prevprev.y

\* the step of a line that has one preceding main line only
FallsBack(p, prev) ==
  /\ p.x = prev.x + GetSpacing(tool) * Scale
  /\ p.y = prev.y

\* C27: when noOfPrimaryLines grows, common point j of every new main line is
\* 2 * prev_j - prevprev_j for the two nearest preceding main lines (prev_j +
\* (spacing, 0) when there is only one); when noOfSecondaryLines grows, every
\* new common point of a main line is 2 * last - secondLast of that line's own
\* common points; with refinement disabled and enabled.
C27_GrowthRepeatsStep ==
  /\ (last.op = "noOfPrimaryLines" /\ last.outcome = "applied" /\ last.facts.lines >= 1) =>
       \A k \in (last.facts.lines + 1)..Len(MainLines) :
         \A j \in 1..Len(MainLines[k]) :
           /\ j <= Len(MainLines[k - 1])
           /\ IF k >= 3
              THEN /\ j <= Len(MainLines[k - 2])
                   /\ RepeatsStep(MainLines[k][j], MainLines[k - 1][j], MainLines[k - 2][j])
              ELSE FallsBack(MainLines[k][j], MainLines[k - 1][j])
  /\ (last.op = "noOfSecondaryLines" /\ last.outcome = "applied" /\ last.facts.points >= 2) =>
       \A k \in 1..Len(MainLines) :
         \A j \in (last.facts.points + 1)..Len(MainLines[k]) :
           RepeatsStep(MainLines[k][j], MainLines[k][j - 1], MainLines[k][j - 2])

\* 4 * p = (4 - k) * from + k * to: p lies k quarters of the way from `from` to `to`
IsInterpolant(p, from, to, k) ==
  /\ Subdivision * p.x = (Subdivision - k) * from.x + k * to.x
  /\ Subdivision * p.y = (Subdivision - k) * from.y + k * to.y

\* point j of line i is the interpolant the refinement puts there: between the
\* common points around it on a main line, between the j-th common points of
\* the two bounding main lines on a subsidiary line
IsRefinementPoint(i, j) ==
  IF i % Subdivision = 0
  THEN LET k == j % Subdivision
       IN /\ InRange(Line(i).points, j - k + Subdivision)
          /\ IsCommonPoint(i, j - k)
          /\ IsCommonPoint(i, j - k + Subdivision)
          /\ IsInterpolant(At(Line(i).points, j), At(Line(i).points, j - k),
                           At(Line(i).points, j - k + Subdivision), k)
  ELSE LET k == i % Subdivision
       IN /\ InRange(Lines, i - k + Subdivision)
          /\ InRange(CommonPointsOf(Line(i - k)), j)
          /\ InRange(CommonPointsOf(Line(i - k + Subdivision)), j)
          /\ IsInterpolant(At(Line(i).points, j), At(CommonPointsOf(Line(i - k)), j),
                           At(CommonPointsOf(Line(i - k + Subdivision)), j), k)

\* the call enabled refinement, or resized the grid while refinement is enabled
RefinedByCall ==
  /\ last.outcome = "applied"
  /\ HasGrid(tool)
  /\ \/ last.op = "showRefinementPoints" /\ last.input = Boolean(TRUE)
     \/ IsResize(last.op) /\ RefinementShown

\* C28: after enabling refinement, and after every resize made while
\* refinement is enabled, every non-common point is a linear interpolant: at
\* position 4j+k of a main line it is c_j + (c_(j+1) - c_j) * k/4, and point j
\* of the k-th subsidiary line between two main lines is
\* from_j + (to_j - from_j) * k/4 for their j-th common points.
C28_RefinementInterpolates ==
  RefinedByCall =>
    \A i \in LineIndices : \A j \in PointIndices(i) :
      ~IsCommonPoint(i, j) => IsRefinementPoint(i, j)

\* `showRefinementPoints = false` was called on a refined grid
DisabledByCall ==
  /\ last.op = "showRefinementPoints" /\ last.input = Boolean(FALSE)
  /\ last.facts.refined

\* C29: after `showRefinementPoints = false` on a refined grid no line has an
\* empty point list, every remaining line consists of common points only, and
\* there are as many lines as there were main lines before the call.
C29_DisableDropsEmptyLines ==
  DisabledByCall =>
    /\ \A i \in LineIndices : Len(Line(i).points) > 0
    /\ \A i \in LineIndices : \A j \in PointIndices(i) : IsCommonPoint(i, j)
    /\ NoOfLines = last.facts.lines

\* the call disabled the refinement of a grid of more than two main lines,
\* whose emptied subsidiary lines stood in more than one run
C29_Witness ==
  /\ DisabledByCall
  /\ last.facts.lines > 2
  /\ NoOfLines = last.facts.lines

\* C30: after addNewMeasurement on an image without a grid, if the
\* showRefinementPoints getter returns true then the new grid is refined: it
\* has 4*(P-1)+1 lines, subsidiary lines and refinement points included,
\* whatever toggle, removal and placement calls came before.
C30_PlacedRefined ==
  (last.op = "addNewMeasurement" /\ ~last.hadGrid /\ last.outcome = "applied"
     /\ RefinementShown) =>
    /\ NoOfLines = Subdivision * (DefaultNoOfPrimaryLines - 1) + 1
    /\ IsRefined(Lines)

\* C31: when an image that has a grid becomes the displayed image and is
\* rendered, its grid is converted so that its structure matches the global
\* refinement flag, and its per-image setting then equals the global flag;
\* also for a grid installed by setStateForImageIds.
C31_FlagPropagatesOnView ==
  (last.op = "displayImage" /\ last.outcome # "TypeError" /\ HasGrid(tool)) =>
    /\ tool.show[tool.image] = BoolStr(tool.showGlobal)
    /\ IF tool.showGlobal THEN IsRefined(Lines) ELSE IsUnrefined(Lines)

\* The calls that open a Drawing session and close it before they return
Cycles == {"addNewMeasurement", "noOfPrimaryLines", "noOfSecondaryLines", "spacing", "rotateGrid"}

\* C32: after each returning call of placement, of the noOfPrimaryLines,
\* noOfSecondaryLines and spacing setters and of rotateGrid, _drawing and
\* state.isMultiPartToolActive are false, _activeDrawingToolReference is null,
\* currentHandle and currentTool are 0, and no line is active.
C32_EditIsFullCycle ==
  (last.op \in Cycles /\ last.outcome = "applied") =>
    /\ ~tool.drawing
    /\ ~tool.isMultiPartToolActive
    /\ tool.activeDrawingToolReference = Null
    /\ tool.currentHandle = 0
    /\ tool.currentTool = 0
    /\ \A i \in LineIndices : ~Line(i).active


\* C33: during a drag session started on a point of the grid, each accepted
\* drag event moves the whole grid so that the grabbed point lands on the
\* pointer, or with moveOneHandleOnly moves the grabbed point alone; the
\* mouse-up ends the session with _modifying and isToolLocked false and the
\* dragged line inactive.
C33_DragMovesGrid ==
  /\ (/\ last.op = "_editMouseDragCallback"
      /\ last.input.pressed
      /\ last.facts.modifying
      /\ last.hadGrid) => last.facts.moved
  /\ (last.op = "_editMouseUpCallback" /\ last.facts.modifying) =>
       /\ ~tool.modifying
       /\ ~tool.isToolLocked
       /\ LineInactive(last.facts.dragged)


\* C34: showRefinementPoints = v on a grid that is already in mode v changes no
\* line, no point and no flag and fires no event; a second
\* showRefinementPoints = true leaves the grid of the first.
C34_ToggleIdempotent ==
  (/\ last.op = "showRefinementPoints"
   /\ last.input.type = "boolean"
   /\ last.facts.mode = BoolStr(last.input.v)) =>
    /\ ~last.changed
    /\ last.completed = 0
    /\ last.outcome = "ignored"


CoordinateMutators == {"spacing", "angle", "rotateGrid", "setOffset", "_editMouseDragCallback"}
\* C35: the spacing setter, the angle setter, rotateGrid, setOffset and a drag
\* event change only the coordinates of points: the lines, their order, the
\* number of points of each line and every isCommonPoint flag are as before,
\* with and without refinement points.
C35_TopologyPreserved ==
  last.op \in CoordinateMutators => last.facts.topology

C35_Witness ==
  /\ last.op = "_editMouseDragCallback"
  /\ last.facts.moved
  /\ last.facts.mode = "true"
  /\ IsRefined(Lines)
  /\ last.changed


Reshapers == {"noOfPrimaryLines", "noOfSecondaryLines", "showRefinementPoints"}
\* C36: a change of noOfPrimaryLines or noOfSecondaryLines and a refinement
\* toggle move no retained common point: a common point that exists before and
\* after the call, at the same rank among the main lines and among the common
\* points of its line, has the x and y it had.
C36_CommonPointsStay ==
  last.op \in Reshapers => last.facts.retained


\* C37: between two external events state.isToolLocked is true exactly when
\* _modifying is true, whatever the order of handle selections, drag events,
\* mouse-ups and setter calls made during a drag; and while the session lasts
\* config.currentTool and config.currentHandle point at the grabbed point.
C37_LockFollowsSession ==
  /\ tool.isToolLocked <=> tool.modifying
  /\ tool.modifying =>
       /\ tool.currentTool = last.facts.grabbed.t
       /\ tool.currentHandle = last.facts.grabbed.h


\* the square of the distance between the points p and q
SquaredDistance(p, q) == (q.x - p.x) * (q.x - p.x) + (q.y - p.y) * (q.y - p.y)
\* C38: on every image whose grid was made by placement, resizes, refinement
\* toggles, spacing changes, whole-grid translations, setStateForImageIds and
\* removals only, the value of the spacing getter is the distance between the
\* first points of the first two main lines and between the first two common
\* points of line 0, so that spacing = s2 leaves a step of exactly s2.
C38_SpacingMatchesGeometry ==
  (HasGrid(tool) /\ Len(MainLines) >= 2 /\ Len(MainLines[1]) >= 2) =>
    /\ SquaredDistance(MainLines[1][1], MainLines[2][1]) =
         (GetSpacing(tool) * Scale) * (GetSpacing(tool) * Scale)
    /\ SquaredDistance(MainLines[1][1], MainLines[1][2]) =
         (GetSpacing(tool) * Scale) * (GetSpacing(tool) * Scale)


\* the indices of the displayed grid's main lines, from the index f on
MainIndicesFrom(f) == {i \in LineIndices : i >= f /\ IsMainLine(Line(i))}
\* the lines of the displayed grid all have handles and a first point
Scannable == \A i \in LineIndices : Line(i).handles /\ Len(Line(i).points) > 0
\* the keys of the map getAllMainPrimaryLines(from) returns
KeysFrom(from) ==
  LET keys == getAllMainPrimaryLines(tool, from)
  IN {keys[k] : k \in 1..Len(keys)}
\* C39: getAllMainPrimaryLines(from) returns the main lines from the given
\* start: with from = null or 0 the keys are the indices of all main lines,
\* index 0 included; with the index f of a main line they are the indices >= f
\* of main lines; without a grid the result is null.
C39_AllMainLinesFrom ==
  /\ ~HasGrid(tool) => getAllMainPrimaryLines(tool, Null) = Null
  /\ (HasGrid(tool) /\ Scannable) =>
       /\ KeysFrom(Null) = MainIndicesFrom(0)
       /\ \A f \in LineIndices : IsMainLine(Line(f)) => KeysFrom(f) = MainIndicesFrom(f)


\* the displayed grid satisfies I1-I3 for the mode the getter reports
SatisfiesI1toI3 ==
  IF RefinementShown THEN IsRefined(Lines)
  ELSE /\ IsUnrefined(Lines)
       /\ NoOfLines >= 2
       /\ Len(Line(0).points) >= 2
\* the index rule: the main lines are the lines at the multiples of 4 with
\* refinement shown, and all the lines without
MainByIndex(i) == IF RefinementShown THEN i % Subdivision = 0 ELSE TRUE
\* the smallest main-line index after i and the largest before i, Null without one
NextMainAfter(i) ==
  LET after == {k \in LineIndices : k > i /\ IsMainLine(Line(k))}
  IN IF after = {} THEN Null ELSE CHOOSE k \in after : \A m \in after : k <= m
PreviousMainBefore(i) ==
  LET before == {k \in LineIndices : k < i /\ IsMainLine(Line(k))}
  IN IF before = {} THEN Null ELSE CHOOSE k \in before : \A m \in before : k >= m
\* C40: on a grid satisfying I1-I3 getNextMainPrimaryLine(i) is the smallest
\* index after i whose line is a main line and getPreviousMainPrimaryLine(i)
\* the largest such index before i, null when there is none; the lines found
\* are the ones the index rule names (index % 4 = 0 with refinement shown).
C40_NeighbourLookup ==
  SatisfiesI1toI3 =>
    \A i \in LineIndices :
      /\ getNextMainPrimaryLine(tool, i) = NextMainAfter(i)
      /\ getPreviousMainPrimaryLine(tool, i) = PreviousMainBefore(i)
      /\ \A k \in LineIndices : IsMainLine(Line(k)) <=> MainByIndex(k)
C40_Witness ==
  /\ SatisfiesI1toI3
  /\ RefinementShown
  /\ getNextMainPrimaryLine(tool, 0) = Subdivision
  /\ getPreviousMainPrimaryLine(tool, Subdivision) = 0
  /\ getNextMainPrimaryLine(tool, NoOfLines - 1) = Null
  /\ getPreviousMainPrimaryLine(tool, 0) = Null

=============================================================================
